---- MODULE Spec2Model ----
(***************************************************************************)
(* pgctl (package postgresctl): the privilege controller of                *)
(* grantcontroller.go together with the validators of dbcontroller.go and  *)
(* usercontroller.go, run against a PostgreSQL server.                     *)
(*                                                                         *)
(* The controller keeps no privilege state of its own: every operation is  *)
(* a fixed sequence of round trips over c.db, the connection opened to     *)
(* pc.Database, each one blocking until the server answers, with no        *)
(* transaction around them and no lock.  An operation is therefore several *)
(* steps: the checks of its arguments, then one step for each round trip;  *)
(* whatever else reaches the server, or changes the package-level list of  *)
(* reserved usernames, can do so between two of them.  The server is the   *)
(* environment: it holds the roles, the databases and the access-control   *)
(* entries, it rejects a statement that names a role or a database it does *)
(* not have, and any round trip may fail (fault names the round trip of    *)
(* the call that was made to; 0 means none).  A PostgreSQL server also     *)
(* rejects a privilege type that the object kind of the statement does not *)
(* have; typeChecks says whether the server behind c.db does.              *)
(*                                                                         *)
(* Strings that the code only compares and concatenates (database names,   *)
(* usernames, error texts) are TLA+ strings.  Privilege names pass through *)
(* strings.ToUpper, so they are sequences of runes (code points).          *)
(***************************************************************************)
EXTENDS Integers, Sequences, FiniteSets, TLC

\* ------------------------------------------------------------------ bounds

\* Operations called in one behaviour.
MaxCalls == 2

\* ------------------------------------------------------------------ runes

\* unicode.ToUpper on the runes the inputs use: ASCII a..z, and the two
\* non-ASCII runes whose upper case is an ASCII letter (U+017F, U+0131).
ToUpperRune(r) ==
  IF r \in 97..122 THEN r - 32
  ELSE IF r = 383 THEN 83
  ELSE IF r = 305 THEN 73
  ELSE r

\* strings.ToUpper
ToUpper(s) == [i \in 1..Len(s) |-> ToUpperRune(s[i])]

SELECT     == <<83, 69, 76, 69, 67, 84>>
INSERT     == <<73, 78, 83, 69, 82, 84>>
UPDATE     == <<85, 80, 68, 65, 84, 69>>
DELETE     == <<68, 69, 76, 69, 84, 69>>
TRUNCATE   == <<84, 82, 85, 78, 67, 65, 84, 69>>
REFERENCES == <<82, 69, 70, 69, 82, 69, 78, 67, 69, 83>>
TRIGGER    == <<84, 82, 73, 71, 71, 69, 82>>
CONNECT    == <<67, 79, 78, 78, 69, 67, 84>>
TEMPORARY  == <<84, 69, 77, 80, 79, 82, 65, 82, 89>>
EXECUTE    == <<69, 88, 69, 67, 85, 84, 69>>
USAGE      == <<85, 83, 65, 71, 69>>
CREATE     == <<67, 82, 69, 65, 84, 69>>

\* The keyword "ALL PRIVILEGES" of the bulk statements.
ALL_PRIVILEGES == <<65, 76, 76, 32, 80, 82, 73, 86, 73, 76, 69, 71, 69, 83>>

\* var grants: the keys of the map (each value equals its key).
grants ==
  { SELECT, INSERT, UPDATE, DELETE, TRUNCATE, REFERENCES, TRIGGER,
    CONNECT, TEMPORARY, EXECUTE, USAGE, CREATE }

\* ------------------------------------------------------------------ errors

\* An error is the chain of its texts, outermost first; nil is the empty
\* chain.  fmt.Errorf("label: %w", err) puts label in front of err.
Nil == <<>>

Wrap(label, err) == <<label>> \o err

ErrInvalidGrant     == <<"invalid grant">>
ErrUserDoesNotExist == <<"user does not exist">>
ErrDBDoesNotExist   == <<"database does not exist">>

\* What c.db.Exec or QueryRow(...).Scan returns when the round trip fails.
ServerErr == <<"server error">>

\* errors.Is(err, target) for the sentinel errors above.
ErrorsIs(err, target) ==
  /\ Len(err) >= Len(target)
  /\ SubSeq(err, Len(err) - Len(target) + 1, Len(err)) = target

\* ------------------------------------------------------------------- state

VARIABLES
  pc,         \* c.pc: the connection parameters; pc.Database is where c.db is attached
  baseUsers,  \* the package-level list of reserved usernames
  users,      \* server: the roles that exist
  dbs,        \* server: the databases that exist
  typeChecks, \* server: whether it checks a statement's privilege types against its object kind
  acl,        \* server: the access-control entries
  dbOwner,    \* server: the owner of each database
  schemaOwner,\* server: the owner of schema public in each database
  routines,   \* server: the routines of schema public, each with who may execute it
  conns,      \* the connection handles that are open
  opened,     \* the handles the call opened with sql.Open, in order
  call,       \* the operation the caller called last, with its arguments
  live,       \* the caller is inside that call: it has not returned yet
  pre,        \* acl as it was when the call was made
  log,        \* the statements the call has sent with Exec so far, in order
  queries,    \* the existence queries the call has sent so far, in order
  ret,        \* the error the call returned (Nil: success, or not returned yet)
  fault,      \* environment: the round trip of the call that was made to fail (0: none)
  nCalls,     \* operations called so far
  hist,       \* the calls of a recorded session, each with what it returned
  password,   \* server: the password of each role
  connLimit,  \* server: the connection limit of each role (-1: none)
  tables,     \* server: the tables of schema public, each with its database and owner
  ctrls,      \* the connection parameters of the controllers constructed after the first
  ctors,      \* the calls of NewPostgresController that have not returned yet
  other,      \* another caller of the same controller: its call and how far it has got
  pos         \* two callers started together: how far each has got and what it returned

vars == <<pc, baseUsers, users, dbs, typeChecks, acl, dbOwner, schemaOwner, routines, conns,
          opened, call, live, pre, log, queries, ret, fault, nCalls, hist,
          password, connLimit, tables, ctrls, ctors, other, pos>>

\* The server's state.
serverVars == <<users, password, connLimit, dbs, acl, dbOwner, schemaOwner, routines, tables>>

\* The record of the caller's call.
callVars == <<call, live, pre, log, queries, ret, fault, opened, nCalls>>

\* --------------------------------------------------------------- validators

baseDBs == <<"postgres", "template0", "template1">>

contains(s, e) == \E i \in 1..Len(s) : s[i] = e

validateDBName(dbName) ==
  IF dbName = "" THEN <<"database name cannot be empty">>
  ELSE IF contains(baseDBs, dbName) THEN <<"disallowed database name">>
  ELSE Nil

\* validateUsername without the look-up in baseUsers.
validateUsername_NoReserved(username) ==
  IF username = "" THEN <<"username cannot be empty">> ELSE Nil

validateUsername(username) ==
  IF username = "" THEN <<"username cannot be empty">>
  ELSE IF contains(baseUsers, username) THEN <<"username is reserved">>
  ELSE Nil

\* validateGrant without the look-up in the catalog.
validateGrant_NoLookup(grantName) ==
  IF grantName = <<>> THEN ErrInvalidGrant ELSE Nil

validateGrant(grantName) ==
  IF grantName = <<>> THEN ErrInvalidGrant
  ELSE IF grantName \notin grants THEN ErrInvalidGrant
  ELSE Nil

\* ------------------------------------------------------------------ server

\* The role every database grants CONNECT to when it is created.
PUBLIC == "PUBLIC"

\* One statement sent with c.db.Exec.  on is the object clause; db is the
\* database the statement names (only ON DATABASE names one).
Stmt(verb, privs, on, db, user) ==
  [verb |-> verb, privs |-> privs, on |-> on, db |-> db, user |-> user]

AlterDatabase == "ALTER DATABASE OWNER TO"
AlterSchema   == "ALTER SCHEMA public OWNER TO"

OnDatabase   == "DATABASE"
OnSchema     == "SCHEMA public"
OnTables     == "ALL TABLES IN SCHEMA public"
OnSequences  == "ALL SEQUENCES IN SCHEMA public"
OnFunctions  == "ALL FUNCTIONS IN SCHEMA public"
DefTables    == "DEFAULT PRIVILEGES IN SCHEMA public ON TABLES"
DefSequences == "DEFAULT PRIVILEGES IN SCHEMA public ON SEQUENCES"
DefFunctions == "DEFAULT PRIVILEGES IN SCHEMA public ON FUNCTIONS"

\* What ALL PRIVILEGES stands for on tables and on sequences.
TablePrivileges    == {SELECT, INSERT, UPDATE, DELETE, TRUNCATE, REFERENCES, TRIGGER}
SequencePrivileges == {USAGE, SELECT, UPDATE}

Expand(privs, on) ==
  IF privs = <<ALL_PRIVILEGES>>
  THEN IF on \in {OnTables, DefTables} THEN TablePrivileges
       ELSE IF on \in {OnSequences, DefSequences} THEN SequencePrivileges
       ELSE {}
  ELSE {privs[i] : i \in 1..Len(privs)}

\* A server on which ON DATABASE, too, means the database of the connection.
Entries_ConnectionDB(stmt) ==
  { [on |-> stmt.on, db |-> pc.Database, priv |-> p, grantee |-> stmt.user] :
      p \in Expand(stmt.privs, stmt.on) }

\* The entries a statement grants or revokes.  A statement that names no
\* database acts in the database the connection is attached to.
Entries(stmt) ==
  { [on |-> stmt.on,
     db |-> IF stmt.on = OnDatabase THEN stmt.db ELSE pc.Database,
     priv |-> p,
     grantee |-> stmt.user] : p \in Expand(stmt.privs, stmt.on) }

Apply(a, stmt) ==
  IF stmt.verb = "GRANT" THEN a \cup Entries(stmt) ELSE a \ Entries(stmt)

RECURSIVE ApplyAll(_, _)
ApplyAll(a, stmts) ==
  IF stmts = <<>> THEN a ELSE ApplyAll(Apply(a, Head(stmts)), Tail(stmts))

\* The privilege types PostgreSQL has for each kind of object.  A statement
\* ON ALL TABLES is checked against the types of tables and of sequences
\* together, and only then against each table it finds; the failure of that
\* second check is one of the failures that fault stands for.
DatabasePrivileges == {CREATE, CONNECT, TEMPORARY}
SchemaPrivileges   == {USAGE, CREATE}
FunctionPrivileges == {EXECUTE}

PrivilegeTypes(on) ==
  CASE on = OnDatabase   -> DatabasePrivileges
    [] on = OnSchema     -> SchemaPrivileges
    [] on = OnTables     -> TablePrivileges \cup SequencePrivileges
    [] on = OnSequences  -> SequencePrivileges
    [] on = OnFunctions  -> FunctionPrivileges
    [] on = DefTables    -> TablePrivileges
    [] on = DefSequences -> SequencePrivileges
    [] on = DefFunctions -> FunctionPrivileges

PrivilegeFits(stmt) ==
  stmt.privs = <<ALL_PRIVILEGES>>
  \/ \A i \in 1..Len(stmt.privs) : stmt.privs[i] \in PrivilegeTypes(stmt.on)

\* What a statement does to the routines that exist: ON ALL FUNCTIONS IN
\* SCHEMA public reaches the routines of the database of the connection.
ApplyRoutines(rs, stmt) ==
  IF stmt.on = OnFunctions /\ EXECUTE \in Expand(stmt.privs, stmt.on)
  THEN { IF r.db = pc.Database
         THEN [r EXCEPT !.execs = IF stmt.verb = "GRANT" THEN @ \cup {stmt.user}
                                  ELSE @ \ {stmt.user}]
         ELSE r : r \in rs }
  ELSE rs

RECURSIVE ApplyRoutinesAll(_, _)
ApplyRoutinesAll(rs, stmts) ==
  IF stmts = <<>> THEN rs
  ELSE ApplyRoutinesAll(ApplyRoutines(rs, Head(stmts)), Tail(stmts))

\* A role may execute a routine it owns, one it was granted EXECUTE on, and
\* one PUBLIC was.
CanExecute(username, r) ==
  username = r.owner \/ username \in r.execs \/ PUBLIC \in r.execs

\* The server rejects a statement naming a role or a database it lacks, and
\* a PostgreSQL server one naming a privilege type its object kind lacks
\* (a stand-in for the server that executes whatever it is sent does not).
ServerAccepts(stmt) ==
  /\ stmt.user \in users
  /\ stmt.on \in {OnDatabase, AlterDatabase} => stmt.db \in dbs
  /\ typeChecks => PrivilegeFits(stmt)

\* A role can open a connection to a database when it, or PUBLIC, holds
\* CONNECT on it (openPostgres of the tests).
CanConnect(a, username, dbName) ==
  /\ username \in users
  /\ dbName \in dbs
  /\ \E g \in {username, PUBLIC} :
       [on |-> OnDatabase, db |-> dbName, priv |-> CONNECT, grantee |-> g] \in a


\* -------------------------------------------------------------- round trips

\* A plan is the sequence of the Exec calls of one operation, each with the
\* label its error is wrapped in ("" when the error is returned as is).
Step(stmt, label) == [stmt |-> stmt, label |-> label]

\* The error an operation makes of the failure of one of its Exec calls.
Labelled(step) ==
  IF step.label = "" THEN ServerErr ELSE Wrap(step.label, ServerErr)

\* What one round trip of a call leaves: the server's state after it, the
\* statement or the query it sent, the error the call returns with, and
\* whether the call returns after it.  Same is a round trip that changes
\* nothing, sends nothing and lets the call go on.
Same ==
  [users |-> users, password |-> password, connLimit |-> connLimit, dbs |-> dbs,
   acl |-> acl, dbOwner |-> dbOwner, schemaOwner |-> schemaOwner,
   routines |-> routines, tables |-> tables,
   log |-> <<>>, queries |-> <<>>, ret |-> Nil, done |-> FALSE]

\* An Exec after whose failure the operation goes on to its next statement.
ExecStep_NoAbort(plan, k, failed) ==
  LET step == plan[k]
      ok   == ~failed /\ ServerAccepts(step.stmt)
  IN  [Same EXCEPT
         !.acl = IF ok THEN Apply(acl, step.stmt) ELSE acl,
         !.routines = IF ok THEN ApplyRoutines(routines, step.stmt) ELSE routines,
         !.log = <<step.stmt>>,
         !.ret = IF ok THEN Nil ELSE Labelled(step),
         !.done = (k = Len(plan))]

\* An Exec inside a transaction: its failure undoes the statements of the
\* call before it.
ExecStep_Rollback(plan, k, failed) ==
  LET step == plan[k]
      ok   == ~failed /\ ServerAccepts(step.stmt)
  IN  [Same EXCEPT
         !.acl = IF ok THEN Apply(acl, step.stmt) ELSE pre,
         !.routines = IF ok THEN ApplyRoutines(routines, step.stmt) ELSE routines,
         !.log = <<step.stmt>>,
         !.ret = IF ok THEN Nil ELSE Labelled(step),
         !.done = ~ok \/ k = Len(plan)]

\* An Exec whose failure makes the operation take from the principal
\* everything it holds.
ExecStep_CleanupOnFailure(plan, k, failed) ==
  LET step == plan[k]
      ok   == ~failed /\ ServerAccepts(step.stmt)
  IN  [Same EXCEPT
         !.acl = IF ok THEN Apply(acl, step.stmt)
                 ELSE {e \in acl : e.grantee # step.stmt.user},
         !.routines = IF ok THEN ApplyRoutines(routines, step.stmt) ELSE routines,
         !.log = <<step.stmt>>,
         !.ret = IF ok THEN Nil ELSE Labelled(step),
         !.done = ~ok \/ k = Len(plan)]

\* An Exec that is sent once more when it fails, before the operation gives
\* up.
ExecStep_Retry(plan, k, failed) ==
  LET step == plan[k]
      ok   == ~failed /\ ServerAccepts(step.stmt)
  IN  [Same EXCEPT
         !.acl = IF ok THEN Apply(acl, step.stmt) ELSE acl,
         !.routines = IF ok THEN ApplyRoutines(routines, step.stmt) ELSE routines,
         !.log = IF ok THEN <<step.stmt>> ELSE <<step.stmt, step.stmt>>,
         !.ret = IF ok THEN Nil ELSE Labelled(step),
         !.done = ~ok \/ k = Len(plan)]

\* if _, err := c.db.Exec(...); err != nil { return fmt.Errorf(...) }, for
\* the k-th Exec of a plan: the statement is sent; when the server executes
\* it the operation goes on (and returns nil after the last one); when the
\* round trip fails (failed) or the server rejects the statement, the
\* operation returns the error, with what the statements before have done
\* left as it is.
ExecStep(plan, k, failed) ==
  LET step == plan[k]
      ok   == ~failed /\ ServerAccepts(step.stmt)
  IN  [Same EXCEPT
         !.acl = IF ok THEN Apply(acl, step.stmt) ELSE acl,
         !.routines = IF ok THEN ApplyRoutines(routines, step.stmt) ELSE routines,
         !.log = <<step.stmt>>,
         !.ret = IF ok THEN Nil ELSE Labelled(step),
         !.done = ~ok \/ k = Len(plan)]

\* ----------------------------------------------------------- existence checks

UserExistsQuery(username)   == <<"SELECT EXISTS pg_roles", username>>
DatabaseExistsQuery(dbName) == <<"SELECT EXISTS pg_database", dbName>>

\* c.UserExists: [exists, err], and whether the query was sent (the name is
\* checked first); failed says the query's round trip fails.
UserExists(username, failed) ==
  IF validateUsername(username) # Nil
  THEN [exists |-> FALSE, err |-> validateUsername(username), sent |-> FALSE]
  ELSE IF failed
  THEN [exists |-> FALSE, err |-> Wrap("error checking if user exists", ServerErr),
        sent |-> TRUE]
  ELSE [exists |-> username \in users, err |-> Nil, sent |-> TRUE]

\* c.DatabaseExists: [exists, err, sent].
DatabaseExists(dbName, failed) ==
  IF validateDBName(dbName) # Nil
  THEN [exists |-> FALSE, err |-> validateDBName(dbName), sent |-> FALSE]
  ELSE IF failed
  THEN [exists |-> FALSE, err |-> ServerErr, sent |-> TRUE]
  ELSE [exists |-> dbName \in dbs, err |-> Nil, sent |-> TRUE]

\* if exists, err := c.UserExists(...); err != nil { return fmt.Errorf(...) }
\* else if !exists { return ErrUserDoesNotExist }, and the same for the
\* database: res is what the check returned, query what it asked.
ExistsStep(res, query, label, notFound) ==
  [Same EXCEPT
     !.queries = IF res.sent THEN <<query>> ELSE <<>>,
     !.ret = IF res.err # Nil THEN Wrap(label, res.err)
             ELSE IF ~res.exists THEN notFound
             ELSE Nil,
     !.done = res.err # Nil \/ ~res.exists]

\* ------------------------------------------------------------------- plans

\* GrantAll with the schema grant sent before the CONNECT grant.
GrantAllPlan_SchemaFirst(dbName, username) ==
  << Step(Stmt("GRANT", <<USAGE, CREATE>>, OnSchema, "", username),
          "grant SCHEMA privileges failed"),
     Step(Stmt("GRANT", <<CONNECT>>, OnDatabase, dbName, username),
          "grant CONNECT failed"),
     Step(Stmt("GRANT", <<ALL_PRIVILEGES>>, OnTables, "", username),
          "grant TABLES failed"),
     Step(Stmt("GRANT", <<ALL_PRIVILEGES>>, OnSequences, "", username),
          "grant SEQUENCES failed"),
     Step(Stmt("GRANT", <<ALL_PRIVILEGES>>, DefTables, "", username),
          "default privileges for TABLES failed"),
     Step(Stmt("GRANT", <<ALL_PRIVILEGES>>, DefSequences, "", username),
          "default privileges for SEQUENCES failed") >>

\* The six Exec calls of GrantAll.
GrantAllPlan(dbName, username) ==
  << Step(Stmt("GRANT", <<CONNECT>>, OnDatabase, dbName, username),
          "grant CONNECT failed"),
     Step(Stmt("GRANT", <<USAGE, CREATE>>, OnSchema, "", username),
          "grant SCHEMA privileges failed"),
     Step(Stmt("GRANT", <<ALL_PRIVILEGES>>, OnTables, "", username),
          "grant TABLES failed"),
     Step(Stmt("GRANT", <<ALL_PRIVILEGES>>, OnSequences, "", username),
          "grant SEQUENCES failed"),
     Step(Stmt("GRANT", <<ALL_PRIVILEGES>>, DefTables, "", username),
          "default privileges for TABLES failed"),
     Step(Stmt("GRANT", <<ALL_PRIVILEGES>>, DefSequences, "", username),
          "default privileges for SEQUENCES failed") >>

\* RevokeAll that leaves the CONNECT grant alone.
RevokeAllPlan_KeepConnect(dbName, username) ==
  << Step(Stmt("REVOKE", <<ALL_PRIVILEGES>>, OnTables, "", username),
          "error revoking TABLE privileges"),
     Step(Stmt("REVOKE", <<ALL_PRIVILEGES>>, OnSequences, "", username),
          "error revoking SEQUENCE privileges"),
     Step(Stmt("REVOKE", <<USAGE, CREATE>>, OnSchema, "", username),
          "error revoking schema privileges"),
     Step(Stmt("REVOKE", <<ALL_PRIVILEGES>>, DefTables, "", username),
          "error revoking default TABLE privileges"),
     Step(Stmt("REVOKE", <<ALL_PRIVILEGES>>, DefSequences, "", username),
          "error revoking default SEQUENCE privileges") >>

\* The six Exec calls of RevokeAll.
RevokeAllPlan(dbName, username) ==
  << Step(Stmt("REVOKE", <<CONNECT>>, OnDatabase, dbName, username),
          "error revoking CONNECT"),
     Step(Stmt("REVOKE", <<ALL_PRIVILEGES>>, OnTables, "", username),
          "error revoking TABLE privileges"),
     Step(Stmt("REVOKE", <<ALL_PRIVILEGES>>, OnSequences, "", username),
          "error revoking SEQUENCE privileges"),
     Step(Stmt("REVOKE", <<USAGE, CREATE>>, OnSchema, "", username),
          "error revoking schema privileges"),
     Step(Stmt("REVOKE", <<ALL_PRIVILEGES>>, DefTables, "", username),
          "error revoking default TABLE privileges"),
     Step(Stmt("REVOKE", <<ALL_PRIVILEGES>>, DefSequences, "", username),
          "error revoking default SEQUENCE privileges") >>

\* Grant whose CREATE case also sets the default privileges of future tables.
GrantPlan_CreateDefaults(grantName, dbName, username) ==
  IF grantName \in {CONNECT, TEMPORARY}
  THEN << Step(Stmt("GRANT", <<grantName>>, OnDatabase, dbName, username), "") >>
  ELSE IF grantName = USAGE
  THEN << Step(Stmt("GRANT", <<USAGE>>, OnSchema, "", username),
               "error granting schema USAGE"),
          Step(Stmt("GRANT", <<USAGE>>, DefSequences, "", username), "") >>
  ELSE IF grantName = CREATE
  THEN << Step(Stmt("GRANT", <<CREATE>>, OnSchema, "", username),
               "error granting schema CREATE"),
          Step(Stmt("GRANT", <<CREATE>>, DefTables, "", username), "") >>
  ELSE IF grantName = EXECUTE
  THEN << Step(Stmt("GRANT", <<EXECUTE>>, OnFunctions, "", username),
               "error granting EXECUTE"),
          Step(Stmt("GRANT", <<EXECUTE>>, DefFunctions, "", username), "") >>
  ELSE << Step(Stmt("GRANT", <<grantName>>, OnTables, "", username),
               "error granting table privileges"),
          Step(Stmt("GRANT", <<grantName>>, DefTables, "", username), "") >>

\* The switch of Grant, on the upper-cased name.
GrantPlan(grantName, dbName, username) ==
  IF grantName \in {CONNECT, TEMPORARY}
  THEN << Step(Stmt("GRANT", <<grantName>>, OnDatabase, dbName, username), "") >>
  ELSE IF grantName = USAGE
  THEN << Step(Stmt("GRANT", <<USAGE>>, OnSchema, "", username),
               "error granting schema USAGE"),
          Step(Stmt("GRANT", <<USAGE>>, DefSequences, "", username), "") >>
  ELSE IF grantName = CREATE
  THEN << Step(Stmt("GRANT", <<CREATE>>, OnSchema, "", username),
               "error granting schema CREATE") >>
  ELSE IF grantName = EXECUTE
  THEN << Step(Stmt("GRANT", <<EXECUTE>>, OnFunctions, "", username),
               "error granting EXECUTE"),
          Step(Stmt("GRANT", <<EXECUTE>>, DefFunctions, "", username), "") >>
  ELSE << Step(Stmt("GRANT", <<grantName>>, OnTables, "", username),
               "error granting table privileges"),
          Step(Stmt("GRANT", <<grantName>>, DefTables, "", username), "") >>

\* Revoke that treats TEMPORARY as it treats CONNECT: one statement at
\* database scope.
RevokePlan_DatabaseScope(grantName, dbName, username) ==
  IF grantName \in {CONNECT, TEMPORARY}
  THEN << Step(Stmt("REVOKE", <<grantName>>, OnDatabase, dbName, username),
               "error revoking CONNECT privilege") >>
  ELSE << Step(Stmt("REVOKE", <<grantName>>, OnTables, "", username),
               "error revoking table privileges"),
          Step(Stmt("REVOKE", <<grantName>>, DefTables, "", username),
               "error revoking default table privileges") >>
       \o (IF grantName = USAGE \/ grantName = CREATE
           THEN << Step(Stmt("REVOKE", <<grantName>>, OnSchema, "", username),
                        "error revoking schema privilege") >>
           ELSE << >>)

\* Revoke without the CONNECT case: CONNECT goes the way of the table
\* privileges.
RevokePlan_NoConnectCase(grantName, dbName, username) ==
  << Step(Stmt("REVOKE", <<grantName>>, OnTables, "", username),
          "error revoking table privileges"),
     Step(Stmt("REVOKE", <<grantName>>, DefTables, "", username),
          "error revoking default table privileges") >>
  \o (IF grantName = USAGE \/ grantName = CREATE
      THEN << Step(Stmt("REVOKE", <<grantName>>, OnSchema, "", username),
                   "error revoking schema privilege") >>
      ELSE << >>)

\* The Exec calls of Revoke, on the upper-cased name.
RevokePlan(grantName, dbName, username) ==
  IF grantName = CONNECT
  THEN << Step(Stmt("REVOKE", <<CONNECT>>, OnDatabase, dbName, username),
               "error revoking CONNECT privilege") >>
  ELSE << Step(Stmt("REVOKE", <<grantName>>, OnTables, "", username),
               "error revoking table privileges"),
          Step(Stmt("REVOKE", <<grantName>>, DefTables, "", username),
               "error revoking default table privileges") >>
       \o (IF grantName = USAGE \/ grantName = CREATE
           THEN << Step(Stmt("REVOKE", <<grantName>>, OnSchema, "", username),
                        "error revoking schema privilege") >>
           ELSE << >>)


\* -------------------------------------------------------------- operations

\* Every operation starts with the checks of its arguments, which read
\* baseUsers and send nothing; a call that fails them returns at once.  Then
\* it makes its round trips one after the other.  What the round trip after
\* the first at of them does is given, for each operation, from the state
\* the server is in when it arrives.

\* The checks GrantAll and RevokeAll make before their first round trip.
ValidateIds(dbName, username) ==
  IF validateDBName(dbName) # Nil
  THEN Wrap("error validating database name", validateDBName(dbName))
  ELSE IF validateUsername(username) # Nil
  THEN Wrap("error validating username", validateUsername(username))
  ELSE Nil

\* Grant and Revoke that compare the name as the caller wrote it with the
\* catalog.
ValidateCall_NoUpper(grantName, dbName, username) ==
  IF ValidateIds(dbName, username) # Nil
  THEN ValidateIds(dbName, username)
  ELSE IF validateGrant(grantName) # Nil
  THEN Wrap("error validating grant", validateGrant(grantName))
  ELSE Nil

\* The checks Grant and Revoke make before the first Exec: the database
\* name, the username, and the upper-cased privilege name.
ValidateCall(grantName, dbName, username) ==
  IF ValidateIds(dbName, username) # Nil
  THEN ValidateIds(dbName, username)
  ELSE IF validateGrant(ToUpper(grantName)) # Nil
  THEN Wrap("error validating grant", validateGrant(ToUpper(grantName)))
  ELSE Nil

\* GrantAll that asks for the database before the principal.
GrantAllTrip_DBFirst(dbName, username, at, failed) ==
  IF at = 0
  THEN ExistsStep(DatabaseExists(dbName, failed), DatabaseExistsQuery(dbName),
                  "error checking database", ErrDBDoesNotExist)
  ELSE IF at = 1
  THEN ExistsStep(UserExists(username, failed), UserExistsQuery(username),
                  "error checking user", ErrUserDoesNotExist)
  ELSE ExecStep(GrantAllPlan(dbName, username), at - 1, failed)

\* GrantAll past its checks: c.UserExists, c.DatabaseExists, then the six
\* Exec calls.
GrantAllTrip(dbName, username, at, failed) ==
  IF at = 0
  THEN ExistsStep(UserExists(username, failed), UserExistsQuery(username),
                  "error checking user", ErrUserDoesNotExist)
  ELSE IF at = 1
  THEN ExistsStep(DatabaseExists(dbName, failed), DatabaseExistsQuery(dbName),
                  "error checking database", ErrDBDoesNotExist)
  ELSE ExecStep(GrantAllPlan(dbName, username), at - 1, failed)

\* RevokeAll that checks, as GrantAll does, that the principal exists.
RevokeAllTrip_Checked(dbName, username, at, failed) ==
  IF at = 0
  THEN ExistsStep(UserExists(username, failed), UserExistsQuery(username),
                  "error checking user", ErrUserDoesNotExist)
  ELSE ExecStep(RevokeAllPlan(dbName, username), at, failed)

\* RevokeAll past its checks: the six Exec calls, and no existence query.
RevokeAllTrip(dbName, username, at, failed) ==
  ExecStep(RevokeAllPlan(dbName, username), at + 1, failed)

\* Grant past its checks: the Exec calls of the case of the upper-cased
\* name.
GrantTrip(grantName, dbName, username, at, failed) ==
  ExecStep(GrantPlan(ToUpper(grantName), dbName, username), at + 1, failed)

\* Revoke past its checks.
RevokeTrip(grantName, dbName, username, at, failed) ==
  ExecStep(RevokePlan(ToUpper(grantName), dbName, username), at + 1, failed)
\* ---------------------------------------------------------------- ownership

\* The handle c.db of the controller and the handle that
\* TransferPublicSchemaOwnership opens from perDbConn.
ControllerConn     == [of |-> "c.db", Database |-> pc.Database]
PerDbConn(dbName)  == [of |-> "perDbConn", Database |-> dbName]

\* What sql.Open returns when it fails.
OpenErr == <<"open error">>

\* The database a handle opened from perDbConn connects to: connStr puts
\* Database in the path of the URL, and with an empty path the driver sends
\* no database name, for which the server takes the name of the user.
ConnectsTo(dbName) == IF dbName = "" THEN pc.Username ELSE dbName

\* What an ownership transfer does: [dbOwner, schemaOwner, log, opened,
\* conns, ret].  f is the first failing step (0: none).

\* TransferDatabaseOwnership that labels the error of its statement.
TransferDatabaseOwnershipOutcome_Wrapped(dbName, newOwner, f) ==
  LET stmt == Stmt("ALTER", <<>>, AlterDatabase, dbName, newOwner)
      ok   == f # 1 /\ ServerAccepts(stmt)
  IN  [dbOwner |-> IF ok THEN [dbOwner EXCEPT ![dbName] = newOwner] ELSE dbOwner,
       schemaOwner |-> schemaOwner,
       log |-> <<stmt>>,
       opened |-> <<>>,
       conns |-> conns,
       ret |-> IF ok THEN Nil ELSE Wrap("error transferring database ownership", ServerErr)]

\* One Exec over c.db, its error returned as it is.
TransferDatabaseOwnershipOutcome(dbName, newOwner, f) ==
  LET stmt == Stmt("ALTER", <<>>, AlterDatabase, dbName, newOwner)
      ok   == f # 1 /\ ServerAccepts(stmt)
  IN  [dbOwner |-> IF ok THEN [dbOwner EXCEPT ![dbName] = newOwner] ELSE dbOwner,
       schemaOwner |-> schemaOwner,
       log |-> <<stmt>>,
       opened |-> <<>>,
       conns |-> conns,
       ret |-> IF ok THEN Nil ELSE ServerErr]

\* TransferPublicSchemaOwnership that closes its handle only when the
\* statement succeeded.
TransferPublicSchemaOwnershipOutcome_CloseOnSuccess(dbName, newOwner, f) ==
  LET stmt == Stmt("ALTER", <<>>, AlterSchema, "", newOwner)
      ok   == f # 2 /\ ConnectsTo(dbName) \in dbs /\ ServerAccepts(stmt)
  IN  IF f = 1
      THEN [dbOwner |-> dbOwner, schemaOwner |-> schemaOwner, log |-> <<>>,
            opened |-> <<>>, conns |-> conns,
            ret |-> Wrap("failed to connect to " \o dbName, OpenErr)]
      ELSE [dbOwner |-> dbOwner,
            schemaOwner |-> IF ok THEN [schemaOwner EXCEPT ![ConnectsTo(dbName)] = newOwner]
                            ELSE schemaOwner,
            log |-> <<stmt>>,
            opened |-> <<PerDbConn(dbName)>>,
            conns |-> IF ok THEN (conns \cup {PerDbConn(dbName)}) \ {PerDbConn(dbName)}
                      ELSE conns \cup {PerDbConn(dbName)},
            ret |-> IF ok THEN Nil ELSE ServerErr]

\* sql.Open on a copy of c.pc with Database = dbName (step 1), one Exec over
\* the handle it returns (step 2: the handle connects to dbName, to the
\* database named as the user when dbName is empty, and the statement acts
\* there), and the deferred Close of the handle.
TransferPublicSchemaOwnershipOutcome(dbName, newOwner, f) ==
  LET stmt == Stmt("ALTER", <<>>, AlterSchema, "", newOwner)
      ok   == f # 2 /\ ConnectsTo(dbName) \in dbs /\ ServerAccepts(stmt)
  IN  IF f = 1
      THEN [dbOwner |-> dbOwner, schemaOwner |-> schemaOwner, log |-> <<>>,
            opened |-> <<>>, conns |-> conns,
            ret |-> Wrap("failed to connect to " \o dbName, OpenErr)]
      ELSE [dbOwner |-> dbOwner,
            schemaOwner |-> IF ok THEN [schemaOwner EXCEPT ![ConnectsTo(dbName)] = newOwner]
                            ELSE schemaOwner,
            log |-> <<stmt>>,
            opened |-> <<PerDbConn(dbName)>>,
            conns |-> (conns \cup {PerDbConn(dbName)}) \ {PerDbConn(dbName)},
            ret |-> IF ok THEN Nil ELSE ServerErr]

\* ------------------------------------------------------------------ inputs

\* Privilege names as callers write them: the catalog, other cases of it,
\* the empty name and names outside the catalog.
LowerSelect  == <<115, 101, 108, 101, 99, 116>>                  \* "select"
MixedConnect == <<67, 111, 110, 110, 101, 99, 116>>              \* "Connect"
LongSSelect  == <<383, 101, 108, 101, 99, 116>>                  \* U+017F then "elect"
InvalidGrant == <<105, 110, 118, 97, 108, 105, 100, 95, 103, 114, 97, 110, 116>> \* "invalid_grant"
ALL          == <<65, 76, 76>>                                   \* "ALL"
SelectSpace  == <<83, 69, 76, 69, 67, 84, 32>>                   \* "SELECT "
LowerUsage   == <<117, 115, 97, 103, 101>>                       \* "usage"

GrantNames ==
  grants \cup
  { <<>>, LowerSelect, MixedConnect, LongSSelect, InvalidGrant, ALL, SelectSpace,
    LowerUsage }

DBNames == {"", "postgres", "template0", "template1", "db1", "db2"}

UserNames == {"", "postgres", "admin", "u1", "u2"}

\* The calls of Grant and of Revoke that are tried: every privilege name
\* with identifiers a call can get past validation with (an existing
\* database and principal, a principal that may be reserved, a principal
\* and a database that do not exist), and every pair of identifiers with
\* one name of the catalog and one outside it.
GrantPairs == {<<"db1", "u1">>, <<"db1", "admin">>, <<"db1", "u2">>, <<"db2", "u1">>}

GrantCalls ==
  {<<g, p[1], p[2]>> : g \in GrantNames, p \in GrantPairs}
  \cup ({SELECT, ALL} \X DBNames \X UserNames)


\* ------------------------------------------------------------ specification

NoCall == [op |-> "", grantName |-> <<>>, dbName |-> "", username |-> "", arg |-> <<>>]

\* No callers started together.
Idle == [Grant |-> [at |-> 0, live |-> FALSE, ret |-> Nil],
         Revoke |-> [at |-> 0, live |-> FALSE, ret |-> Nil]]

\* The other caller has not called anything.
NoOther == [op |-> "", at |-> 0, used |-> FALSE]

\* The state after NewPostgresController(conn, opts...): the connection is
\* attached to conn.Database, and WithBadUsernames, when given, has appended
\* its names to baseUsers.  The server holds its roles and databases; PUBLIC
\* holds CONNECT on every database, as the server sets a database up, except
\* where an administrator has revoked it (db1 is tried both ways).
Init ==
  /\ pc \in {[Database |-> d, Username |-> "postgres"] : d \in {"postgres", "db1"}}
  /\ baseUsers \in {<<"postgres">>, <<"postgres", "admin">>}
  /\ users = {"postgres", "admin", "u1"}
  /\ dbs = {"postgres", "template0", "template1", "db1"}
  /\ typeChecks \in BOOLEAN
  /\ \E open \in {dbs, dbs \ {"db1"}} :
       acl = {[on |-> OnDatabase, db |-> d, priv |-> CONNECT, grantee |-> PUBLIC] : d \in open}
  /\ dbOwner = [d \in dbs |-> "postgres"]
  /\ schemaOwner = [d \in dbs |-> "postgres"]
  /\ routines = {}
  /\ conns = {ControllerConn}
  /\ opened = <<>>
  /\ call = NoCall
  /\ live = FALSE
  /\ pre = acl
  /\ log = <<>>
  /\ queries = <<>>
  /\ ret = Nil
  /\ fault = 0
  /\ nCalls = 0
  /\ hist = <<>>
  /\ password = [u \in users |-> "secret"]
  /\ connLimit = [u \in users |-> -1]
  /\ tables = {}
  /\ ctrls = <<>>
  /\ ctors = <<>>
  /\ other = NoOther
  /\ pos = Idle

\* The round trips the call in flight has made.
At == Len(queries) + Len(log)

\* Whether a round trip over c.db may be made to fail: any may, and every
\* one does once c.db is closed.
Failures == IF ControllerConn \in conns THEN BOOLEAN ELSE {TRUE}

\* A call as a recorded session keeps it: the call, acl as it was when the
\* call was made, and what the call returned.
Record(c, a, err) ==
  [op |-> c.op, grantName |-> c.grantName, dbName |-> c.dbName, username |-> c.username,
   pre |-> a, ret |-> err]

\* The caller calls op: the arguments are checked (err is what the checks
\* return), and the call returns at once when they fail.  rec says whether
\* the session is recorded.
Enter(op, grantName, dbName, username, arg, err, rec) ==
  /\ ~live
  /\ ~other.used
  /\ call' = [op |-> op, grantName |-> grantName, dbName |-> dbName,
              username |-> username, arg |-> arg]
  /\ live' = (err = Nil)
  /\ pre' = acl
  /\ log' = <<>>
  /\ queries' = <<>>
  /\ opened' = <<>>
  /\ ret' = err
  /\ fault' = 0
  /\ nCalls' = nCalls + 1
  /\ hist' = IF rec /\ err # Nil
             THEN Append(hist, Record([op |-> op, grantName |-> grantName,
                                       dbName |-> dbName, username |-> username], acl, err))
             ELSE hist
  /\ UNCHANGED serverVars
  /\ UNCHANGED <<pc, baseUsers, typeChecks, conns, ctrls, ctors, other, pos>>

\* The call in flight makes its next round trip: out is what the round trip
\* leaves, and the call returns after it when out.done.
RoundTrip(out, failed, rec) ==
  /\ users' = out.users
  /\ password' = out.password
  /\ connLimit' = out.connLimit
  /\ dbs' = out.dbs
  /\ acl' = out.acl
  /\ dbOwner' = out.dbOwner
  /\ schemaOwner' = out.schemaOwner
  /\ routines' = out.routines
  /\ tables' = out.tables
  /\ log' = log \o out.log
  /\ queries' = queries \o out.queries
  /\ ret' = out.ret
  /\ live' = ~out.done
  /\ fault' = IF failed THEN At + 1 ELSE fault
  /\ hist' = IF rec /\ out.done THEN Append(hist, Record(call, pre, out.ret)) ELSE hist
  /\ UNCHANGED <<pc, baseUsers, typeChecks, conns, opened, call, pre, nCalls,
                 ctrls, ctors, other, pos>>

\* GrantAll, called up to max times with names of DBs and Users.
GrantAllBy(DBs, Users, max, rec) ==
  \/ /\ nCalls < max
     /\ \E dbName \in DBs, username \in Users :
          Enter("GrantAll", <<>>, dbName, username, <<>>,
                ValidateIds(dbName, username), rec)
  \/ /\ live
     /\ call.op = "GrantAll"
     /\ \E failed \in Failures :
          RoundTrip(GrantAllTrip(call.dbName, call.username, At, failed), failed, rec)

RevokeAllBy(DBs, Users, max, rec) ==
  \/ /\ nCalls < max
     /\ \E dbName \in DBs, username \in Users :
          Enter("RevokeAll", <<>>, dbName, username, <<>>,
                ValidateIds(dbName, username), rec)
  \/ /\ live
     /\ call.op = "RevokeAll"
     /\ \E failed \in Failures :
          RoundTrip(RevokeAllTrip(call.dbName, call.username, At, failed), failed, rec)

\* Grant, called up to max times with one of the triples of Calls.
GrantBy(Calls, max, rec) ==
  \/ /\ nCalls < max
     /\ \E in \in Calls :
          Enter("Grant", in[1], in[2], in[3], <<>>,
                ValidateCall(in[1], in[2], in[3]), rec)
  \/ /\ live
     /\ call.op = "Grant"
     /\ \E failed \in Failures :
          RoundTrip(GrantTrip(call.grantName, call.dbName, call.username, At, failed),
                    failed, rec)

RevokeBy(Calls, max, rec) ==
  \/ /\ nCalls < max
     /\ \E in \in Calls :
          Enter("Revoke", in[1], in[2], in[3], <<>>,
                ValidateCall(in[1], in[2], in[3]), rec)
  \/ /\ live
     /\ call.op = "Revoke"
     /\ \E failed \in Failures :
          RoundTrip(RevokeTrip(call.grantName, call.dbName, call.username, At, failed),
                    failed, rec)

GrantAll == GrantAllBy(DBNames, UserNames, MaxCalls, FALSE)

RevokeAll == RevokeAllBy(DBNames, UserNames, MaxCalls, FALSE)

Grant == GrantBy(GrantCalls, MaxCalls, FALSE)

Revoke == RevokeBy(GrantCalls, MaxCalls, FALSE)

\* An ownership transfer: it checks nothing and makes one round trip, so it
\* is one step.
ReturnTransfer(op, dbName, newOwner, out, f) ==
  /\ ~live
  /\ ~other.used
  /\ nCalls' = nCalls + 1
  /\ call' = [op |-> op, grantName |-> <<>>, dbName |-> dbName, username |-> newOwner,
              arg |-> <<>>]
  /\ pre' = acl
  /\ dbOwner' = out.dbOwner
  /\ schemaOwner' = out.schemaOwner
  /\ log' = out.log
  /\ queries' = <<>>
  /\ opened' = out.opened
  /\ conns' = out.conns
  /\ ret' = out.ret
  /\ fault' = f
  /\ UNCHANGED <<pc, baseUsers, typeChecks, users, password, connLimit, dbs, acl,
                 routines, tables, live, hist, ctrls, ctors, other, pos>>

TransferDBNames == {"", "postgres", "db1", "db2"}
TransferOwners  == {"", "postgres", "admin", "u1", "u2"}

TransferDatabaseOwnership ==
  /\ nCalls < MaxCalls
  /\ \E dbName \in TransferDBNames, newOwner \in TransferOwners :
       \E f \in IF ControllerConn \in conns THEN 0..1 ELSE {1} :
         ReturnTransfer("TransferDatabaseOwnership", dbName, newOwner,
                        TransferDatabaseOwnershipOutcome(dbName, newOwner, f), f)

TransferPublicSchemaOwnership ==
  /\ nCalls < MaxCalls
  /\ \E dbName \in TransferDBNames, newOwner \in TransferOwners :
       \E f \in 0..2 :
         ReturnTransfer("TransferPublicSchemaOwnership", dbName, newOwner,
                        TransferPublicSchemaOwnershipOutcome(dbName, newOwner, f), f)

\* c.Close(): c.db is closed, whatever closing it returns; every round trip
\* over c.db fails from then on.
CloseBy(max) ==
  /\ nCalls < max
  /\ ~live
  /\ ~other.used
  /\ nCalls' = nCalls + 1
  /\ call' = [NoCall EXCEPT !.op = "Close"]
  /\ conns' = conns \ {ControllerConn}
  /\ \E failed \in {f \in BOOLEAN : f => ControllerConn \in conns} :
       /\ ret' = IF failed THEN <<"close error">> ELSE Nil
       /\ fault' = IF failed THEN 1 ELSE 0
  /\ pre' = acl
  /\ log' = <<>>
  /\ queries' = <<>>
  /\ opened' = <<>>
  /\ UNCHANGED serverVars
  /\ UNCHANGED <<pc, baseUsers, typeChecks, live, hist, ctrls, ctors, other, pos>>

Close == CloseBy(MaxCalls)

\* --------------------------------------------------------- the other caller

\* Another goroutine calls the same controller while the caller is inside a
\* call for the same database and principal: GrantAll, RevokeAll,
\* Grant("SELECT") or Revoke("SELECT") for db1 and u1.  Its round trips
\* reach the server between the caller's and after them.  One overlap of two
\* calls is tried in a behaviour: the other caller calls once, during the
\* caller's first call, and the caller calls nothing after that.
OtherOps == {"GrantAll", "RevokeAll", "Grant", "Revoke"}

\* The round trip of the other caller's call after the first at of them.
OtherTrip(op, at, failed) ==
  CASE op = "GrantAll"  -> GrantAllTrip("db1", "u1", at, failed)
    [] op = "RevokeAll" -> RevokeAllTrip("db1", "u1", at, failed)
    [] op = "Grant"     -> GrantTrip(SELECT, "db1", "u1", at, failed)
    [] op = "Revoke"    -> RevokeTrip(SELECT, "db1", "u1", at, failed)

OtherCall ==
  \/ /\ live
     /\ nCalls = 1
     /\ call.dbName = "db1"
     /\ call.username = "u1"
     /\ ~other.used
     /\ ValidateCall(SELECT, "db1", "u1") = Nil
     /\ \E op \in OtherOps : other' = [op |-> op, at |-> 0, used |-> TRUE]
     /\ UNCHANGED serverVars
     /\ UNCHANGED callVars
     /\ UNCHANGED <<pc, baseUsers, typeChecks, conns, hist, ctrls, ctors, pos>>
  \/ /\ other.op # ""
     /\ LET out == OtherTrip(other.op, other.at, ControllerConn \notin conns)
        IN  /\ acl' = out.acl
            /\ routines' = out.routines
            /\ other' = IF out.done THEN [op |-> "", at |-> 0, used |-> TRUE]
                        ELSE [other EXCEPT !.at = @ + 1]
     /\ UNCHANGED <<users, password, connLimit, dbs, dbOwner, schemaOwner, tables>>
     /\ UNCHANGED callVars
     /\ UNCHANGED <<pc, baseUsers, typeChecks, conns, hist, ctrls, ctors, pos>>

Next ==
  \/ GrantAll \/ RevokeAll \/ Grant \/ Revoke
  \/ TransferDatabaseOwnership \/ TransferPublicSchemaOwnership
  \/ Close
  \/ OtherCall

Spec == Init /\ [][Next]_vars

\* ---------------------------------------------------------------- routines

\* The server's roles create routines in schema public while the controller
\* grants EXECUTE: at most MaxRoutines routines.
MaxRoutines == 2

\* The grantees of the default privileges that a statement sent over c.db
\* has set for routines: ALTER DEFAULT PRIVILEGES without FOR ROLE sets
\* them for the routines that the role of the connection will create in the
\* database of the connection.
DefaultExecs(dbName, creator) ==
  IF creator = pc.Username
  THEN {e.grantee : e \in {x \in acl : x.on = DefFunctions /\ x.db = dbName
                                         /\ x.priv = EXECUTE}}
  ELSE {}

\* A role creates a routine in schema public of a database.  PUBLIC gets
\* EXECUTE on it unless the creator's defaults withhold it.
CreateRoutine ==
  /\ Cardinality(routines) < MaxRoutines
  /\ \E d \in {"postgres", "db1"}, creator \in {"postgres", "admin"}, toPublic \in BOOLEAN :
       routines' = routines \cup
         { [id |-> Cardinality(routines) + 1, db |-> d, owner |-> creator,
            execs |-> (IF toPublic THEN {PUBLIC} ELSE {}) \cup DefaultExecs(d, creator)] }
  /\ UNCHANGED <<users, password, connLimit, dbs, acl, dbOwner, schemaOwner, tables>>
  /\ UNCHANGED callVars
  /\ UNCHANGED <<pc, baseUsers, typeChecks, conns, hist, ctrls, ctors, other, pos>>

GrantExecute ==
  GrantBy({<<EXECUTE, "db1", username>> : username \in {"u1", "admin"}},
          MaxCalls, FALSE)

NextRoutines == CreateRoutine \/ GrantExecute

SpecRoutines == Init /\ [][NextRoutines]_vars

\* ------------------------------------------------------- recorded sessions

\* A session of up to MaxSeqCalls calls for one database and one principal,
\* every call recorded in hist when it returns.
MaxSeqCalls == 3

SeqGrantNames == {CONNECT, SELECT, TEMPORARY, USAGE}

InitSeq == Init /\ baseUsers = <<"postgres">>

SeqGrantAll == GrantAllBy({"db1"}, {"u1"}, MaxSeqCalls, TRUE)

SeqRevokeAll == RevokeAllBy({"db1"}, {"u1"}, MaxSeqCalls, TRUE)

SeqGrant ==
  GrantBy({<<g, "db1", "u1">> : g \in SeqGrantNames}, MaxSeqCalls, TRUE)

SeqRevoke == RevokeBy({<<g, "db1", "u1">> : g \in SeqGrantNames}, MaxSeqCalls, TRUE)

NextSeq == SeqGrantAll \/ SeqRevokeAll \/ SeqGrant \/ SeqRevoke \/ OtherCall

SpecSeq == InitSeq /\ [][NextSeq]_vars
\* ------------------------------------------------------ concurrent callers

\* Two callers, one in Grant and one in Revoke, with the same arguments and
\* nobody serializing them: each Exec of either is one round trip, and the
\* server takes the statements in the order they arrive; log keeps the
\* statements of both in that order.  MaxRounds such pairs of calls are
\* made, one pair after the other.
MaxRounds == 2

ConcGrantNames == {SELECT, TRIGGER, LowerSelect, USAGE}
ConcPairs      == {<<"db1", "u1">>, <<"db1", "u2">>}

\* The Exec calls the caller in op has ahead of it when it is called.
ConcPlan(op) ==
  IF op = "Grant"
  THEN GrantPlan(ToUpper(call.grantName), call.dbName, call.username)
  ELSE RevokePlan(ToUpper(call.grantName), call.dbName, call.username)

\* Both callers are called and pass, or fail, the checks.
ConcStart ==
  /\ nCalls < MaxRounds
  /\ ~pos.Grant.live /\ ~pos.Revoke.live
  /\ \E g \in ConcGrantNames, p \in ConcPairs :
       LET err == ValidateCall(g, p[1], p[2])
           c   == [at |-> 0, live |-> err = Nil, ret |-> err]
       IN  /\ call' = [op |-> "Grant||Revoke", grantName |-> g,
                       dbName |-> p[1], username |-> p[2]]
           /\ pos' = [Grant |-> c, Revoke |-> c]
  /\ nCalls' = nCalls + 1
  /\ pre' = acl
  /\ log' = <<>>
  /\ queries' = <<>>
  /\ ret' = Nil
  /\ fault' = 0
  /\ opened' = <<>>
  /\ UNCHANGED serverVars
  /\ UNCHANGED <<pc, baseUsers, typeChecks, conns, live, hist, ctrls, ctors, other>>

\* A server that runs each caller's statements in a transaction of its own:
\* they take effect together, when the caller's last statement arrives.
ConcExec_Transaction(op) ==
  /\ pos[op].live
  /\ LET plan == ConcPlan(op)
         k    == pos[op].at + 1
         step == plan[k]
     IN  \E failed \in BOOLEAN :
           LET ok == ~failed /\ ServerAccepts(step.stmt)
               stmts == [i \in 1..Len(plan) |-> plan[i].stmt]
           IN  /\ log' = Append(log, step.stmt)
               /\ fault' = IF failed THEN Len(log) + 1 ELSE fault
               /\ acl' = IF ok /\ k = Len(plan) THEN ApplyAll(acl, stmts) ELSE acl
               /\ routines' = IF ok /\ k = Len(plan)
                              THEN ApplyRoutinesAll(routines, stmts) ELSE routines
               /\ pos' = [pos EXCEPT ![op] =
                            [at   |-> IF ok THEN k ELSE pos[op].at,
                             live |-> ok /\ k < Len(plan),
                             ret  |-> IF ok THEN Nil
                                      ELSE IF step.label = "" THEN ServerErr
                                      ELSE Wrap(step.label, ServerErr)]]
  /\ UNCHANGED <<users, password, connLimit, dbs, dbOwner, schemaOwner, tables>>
  /\ UNCHANGED <<pc, baseUsers, typeChecks, conns, opened, call, live, pre, queries, ret,
                 nCalls, hist, ctrls, ctors, other>>

\* The caller in op sends its next statement.  The server executes it, or
\* the round trip fails and the caller returns the error; after its last
\* statement the caller returns nil.
ConcExec(op) ==
  /\ pos[op].live
  /\ LET plan == ConcPlan(op)
         k    == pos[op].at + 1
         step == plan[k]
     IN  \E failed \in BOOLEAN :
           LET ok == ~failed /\ ServerAccepts(step.stmt)
           IN  /\ log' = Append(log, step.stmt)
               /\ fault' = IF failed THEN Len(log) + 1 ELSE fault
               /\ acl' = IF ok THEN Apply(acl, step.stmt) ELSE acl
               /\ routines' = IF ok THEN ApplyRoutines(routines, step.stmt) ELSE routines
               /\ pos' = [pos EXCEPT ![op] =
                            [at   |-> IF ok THEN k ELSE pos[op].at,
                             live |-> ok /\ k < Len(plan),
                             ret  |-> IF ok THEN Nil
                                      ELSE IF step.label = "" THEN ServerErr
                                      ELSE Wrap(step.label, ServerErr)]]
  /\ UNCHANGED <<users, password, connLimit, dbs, dbOwner, schemaOwner, tables>>
  /\ UNCHANGED <<pc, baseUsers, typeChecks, conns, opened, call, live, pre, queries, ret,
                 nCalls, hist, ctrls, ctors, other>>

GrantExec  == ConcExec("Grant")
RevokeExec == ConcExec("Revoke")

NextConc == ConcStart \/ GrantExec \/ RevokeExec

SpecConc == Init /\ [][NextConc]_vars

\* ------------------------------------------------------ roles and databases

\* CreateUser, CreateUserWithMaxConn, UpdateUserMaxConn, UpdateUserPassword,
\* DeleteUser, CreateDatabase and DeleteDatabase, with Grant among them and
\* the roles creating tables: at most MaxLifeCalls calls.
MaxLifeCalls == 5

ErrUserExists == <<"user exists">>
ErrDBExists   == <<"database exists">>

\* The names that are tried, as the runes they are made of.
Runes(name) ==
  CASE name = ""          -> <<>>
    [] name = "postgres"  -> <<112, 111, 115, 116, 103, 114, 101, 115>>
    [] name = "admin"     -> <<97, 100, 109, 105, 110>>
    [] name = "u1"        -> <<117, 49>>
    [] name = "u2"        -> <<117, 50>>
    [] name = "pgbouncer" -> <<112, 103, 98, 111, 117, 110, 99, 101, 114>>
    [] name = "pg_u"      -> <<112, 103, 95, 117>>

\* name LIKE 'pg_%': p, g, any one character, then anything.
LikePg(name) ==
  LET r == Runes(name) IN Len(r) >= 3 /\ r[1] = 112 /\ r[2] = 103

\* The server keeps the names that begin with pg_ for its own roles.
ReservedRoleName(name) ==
  LET r == Runes(name) IN Len(r) >= 3 /\ r[1] = 112 /\ r[2] = 103 /\ r[3] = 95

validatePassword(pw) ==
  IF pw = "" THEN <<"password cannot be empty">> ELSE Nil

\* A statement about a role or a database.
LifeStmt(verb, name, arg) == [verb |-> verb, name |-> name, arg |-> arg]

\* What the server refuses to drop a role for: a database, a schema, a table
\* or a routine it owns, or a privilege it has been granted.
RoleDepends(username) ==
  \/ \E d \in dbs : dbOwner[d] = username \/ schemaOwner[d] = username
  \/ \E t \in tables : t.owner = username
  \/ \E r \in routines : r.owner = username
  \/ \E e \in acl : e.grantee = username

DependsErr == <<"role cannot be dropped because some objects depend on it">>

\* The checks of CreateUser, CreateUserWithMaxConn and UpdateUserPassword.
ValidateUser(username, pw) ==
  IF validateUsername(username) # Nil THEN validateUsername(username)
  ELSE validatePassword(pw)

\* The server's answer to CREATE ROLE name WITH LOGIN PASSWORD pw, with
\* CONNECTION LIMIT limit when limit is given (-1: no limit), and what the
\* operation makes of it; stmt is the statement.
CreateRole(stmt, username, pw, limit, failed) ==
  LET sent == [Same EXCEPT !.log = <<stmt>>, !.done = TRUE]
  IN  IF failed
      THEN [sent EXCEPT !.ret = Wrap("error creating user", ServerErr)]
      ELSE IF username \in users
      THEN [sent EXCEPT !.ret = ErrUserExists]
      ELSE IF ReservedRoleName(username)
      THEN [sent EXCEPT !.ret = Wrap("error creating user", <<"role name is reserved">>)]
      ELSE IF limit < -1
      THEN [sent EXCEPT !.ret = Wrap("error creating user", <<"invalid connection limit">>)]
      ELSE [sent EXCEPT
              !.users = users \cup {username},
              !.password = [u \in users \cup {username} |->
                              IF u = username THEN pw ELSE password[u]],
              !.connLimit = [u \in users \cup {username} |->
                               IF u = username THEN limit ELSE connLimit[u]]]

\* CreateUser past its checks: one Exec.
CreateUserTrip(username, pw, failed) ==
  CreateRole(LifeStmt("CREATE ROLE", username, <<pw>>), username, pw, -1, failed)

\* CreateUserWithMaxConn past its checks: one Exec.
CreateUserWithMaxConnTrip(username, pw, maxConn, failed) ==
  CreateRole(LifeStmt("CREATE ROLE CONNECTION LIMIT", username, <<pw, maxConn>>),
             username, pw, maxConn, failed)

\* c.GetUserMaxConn: [maxConn, err]; the row of a role that does not exist
\* is not there to scan.
GetUserMaxConn(username, failed) ==
  IF validateUsername(username) # Nil
  THEN [maxConn |-> 0, err |-> validateUsername(username)]
  ELSE IF failed
  THEN [maxConn |-> 0, err |-> Wrap("error getting user max connections", ServerErr)]
  ELSE IF username \notin users
  THEN [maxConn |-> 0,
        err |-> Wrap("error getting user max connections", <<"no rows in result set">>)]
  ELSE [maxConn |-> connLimit[username], err |-> Nil]

\* UpdateUserMaxConn past its check: one Exec.
UpdateUserMaxConnTrip(username, maxConn, failed) ==
  LET sent == [Same EXCEPT
                 !.log = <<LifeStmt("ALTER ROLE WITH CONNECTION LIMIT", username,
                                    <<"", maxConn>>)>>,
                 !.done = TRUE]
  IN  IF failed
      THEN [sent EXCEPT !.ret = Wrap("error updating user max connections", ServerErr)]
      ELSE IF username \notin users
      THEN [sent EXCEPT !.ret = ErrUserDoesNotExist]
      ELSE IF maxConn < -1
      THEN [sent EXCEPT !.ret = Wrap("error updating user max connections",
                                     <<"invalid connection limit">>)]
      ELSE [sent EXCEPT !.connLimit = [connLimit EXCEPT ![username] = maxConn]]

\* UpdateUserPassword past its checks: one Exec.
UpdateUserPasswordTrip(username, pw, failed) ==
  LET sent == [Same EXCEPT
                 !.log = <<LifeStmt("ALTER ROLE WITH PASSWORD", username, <<pw>>)>>,
                 !.done = TRUE]
  IN  IF failed
      THEN [sent EXCEPT !.ret = Wrap("error updating user password", ServerErr)]
      ELSE IF username \notin users
      THEN [sent EXCEPT !.ret = ErrUserDoesNotExist]
      ELSE [sent EXCEPT !.password = [password EXCEPT ![username] = pw]]

\* DeleteUser past its check: the Exec that ends the sessions of the role,
\* then DROP ROLE.  There is no DROP OWNED before it.
DeleteUserTrip(username, at, failed) ==
  IF at = 0
  THEN LET sent == [Same EXCEPT
                      !.log = <<LifeStmt("SELECT pg_terminate_backend WHERE usename",
                                         username, <<>>)>>]
       IN  IF failed
           THEN [sent EXCEPT !.ret = Wrap("error terminating user connections", ServerErr),
                             !.done = TRUE]
           ELSE sent
  ELSE LET sent == [Same EXCEPT !.log = <<LifeStmt("DROP ROLE", username, <<>>)>>,
                                !.done = TRUE]
       IN  IF failed
           THEN [sent EXCEPT !.ret = Wrap("error deleting user", ServerErr)]
           ELSE IF username \notin users
           THEN [sent EXCEPT !.ret = ErrUserDoesNotExist]
           ELSE IF RoleDepends(username)
           THEN [sent EXCEPT !.ret = Wrap("error deleting user", DependsErr)]
           ELSE [sent EXCEPT
                   !.users = users \ {username},
                   !.password = [u \in users \ {username} |-> password[u]],
                   !.connLimit = [u \in users \ {username} |-> connLimit[u]]]

\* c.ListUsers without a failing round trip: the roles that can log in and
\* whose name is not LIKE 'pg_%', less the reserved ones.
filterUsers(us) == {u \in us : ~contains(baseUsers, u)}

ListUsers == filterUsers({u \in users : ~LikePg(u)})

\* CreateDatabase that asks DatabaseExists first and sends nothing when the
\* database is there.
CreateDatabaseTrip_AskFirst(dbName, failed) ==
  IF dbName \in dbs
  THEN [Same EXCEPT !.done = TRUE]
  ELSE
    LET sent == [Same EXCEPT !.log = <<LifeStmt("CREATE DATABASE", dbName, <<>>)>>,
                             !.done = TRUE]
    IN  IF failed
        THEN [sent EXCEPT !.ret = ServerErr]
        ELSE [sent EXCEPT
                !.dbs = dbs \cup {dbName},
                !.dbOwner = [d \in dbs \cup {dbName} |->
                               IF d = dbName THEN pc.Username ELSE dbOwner[d]],
                !.schemaOwner = [d \in dbs \cup {dbName} |->
                                   IF d = dbName THEN schemaOwner["template1"]
                                   ELSE schemaOwner[d]],
                !.acl = acl \cup {[on |-> OnDatabase, db |-> dbName, priv |-> CONNECT,
                                   grantee |-> PUBLIC]}]

\* CreateDatabase past its check: one Exec.  The new database is a copy of
\* template1, owned by the role of the connection, and PUBLIC may connect
\* to it.
CreateDatabaseTrip(dbName, failed) ==
  LET sent == [Same EXCEPT !.log = <<LifeStmt("CREATE DATABASE", dbName, <<>>)>>,
                           !.done = TRUE]
  IN  IF failed
      THEN [sent EXCEPT !.ret = ServerErr]
      ELSE IF dbName \in dbs
      THEN [sent EXCEPT !.ret = ErrDBExists]
      ELSE [sent EXCEPT
              !.dbs = dbs \cup {dbName},
              !.dbOwner = [d \in dbs \cup {dbName} |->
                             IF d = dbName THEN pc.Username ELSE dbOwner[d]],
              !.schemaOwner = [d \in dbs \cup {dbName} |->
                                 IF d = dbName THEN schemaOwner["template1"]
                                 ELSE schemaOwner[d]],
              !.acl = acl \cup {[on |-> OnDatabase, db |-> dbName, priv |-> CONNECT,
                                 grantee |-> PUBLIC]}]

\* DeleteDatabase past its check: the Exec that ends the sessions in the
\* database, then DROP DATABASE.  The server does not drop the database the
\* connection is attached to.
DeleteDatabaseTrip(dbName, at, failed) ==
  IF at = 0
  THEN LET sent == [Same EXCEPT
                      !.log = <<LifeStmt("SELECT pg_terminate_backend WHERE datname",
                                         dbName, <<>>)>>]
       IN  IF failed
           THEN [sent EXCEPT !.ret = Wrap("error terminating connections", ServerErr),
                             !.done = TRUE]
           ELSE sent
  ELSE LET sent == [Same EXCEPT !.log = <<LifeStmt("DROP DATABASE", dbName, <<>>)>>,
                                !.done = TRUE]
       IN  IF failed
           THEN [sent EXCEPT !.ret = Wrap("error dropping database", ServerErr)]
           ELSE IF dbName \notin dbs
           THEN [sent EXCEPT !.ret = ErrDBDoesNotExist]
           ELSE IF dbName = pc.Database
           THEN [sent EXCEPT !.ret = Wrap("error dropping database",
                                          <<"cannot drop the currently open database">>)]
           ELSE [sent EXCEPT
                   !.dbs = dbs \ {dbName},
                   !.dbOwner = [d \in dbs \ {dbName} |-> dbOwner[d]],
                   !.schemaOwner = [d \in dbs \ {dbName} |-> schemaOwner[d]],
                   !.acl = {e \in acl : e.db # dbName},
                   !.routines = {r \in routines : r.db # dbName},
                   !.tables = {t \in tables : t.db # dbName}]

LifeUserNames == {"", "postgres", "u1", "u2", "pgbouncer", "pg_u"}
LifeDBNames   == {"", "postgres", "template1", "db1", "db2"}
Passwords     == {"", "new_password"}

\* CreateUser, called up to max times with names of Names and passwords of
\* Pws.
CreateUserBy(Names, Pws, max) ==
  \/ /\ nCalls < max
     /\ \E username \in Names, pw \in Pws :
          Enter("CreateUser", <<>>, "", username, <<pw>>,
                ValidateUser(username, pw), FALSE)
  \/ /\ live
     /\ call.op = "CreateUser"
     /\ \E failed \in Failures :
          RoundTrip(CreateUserTrip(call.username, call.arg[1], failed), failed, FALSE)

DeleteUserBy(Names, max) ==
  \/ /\ nCalls < max
     /\ \E username \in Names :
          Enter("DeleteUser", <<>>, "", username, <<>>, validateUsername(username), FALSE)
  \/ /\ live
     /\ call.op = "DeleteUser"
     /\ \E failed \in Failures :
          RoundTrip(DeleteUserTrip(call.username, At, failed), failed, FALSE)

CreateUser == CreateUserBy(LifeUserNames, Passwords, MaxLifeCalls)

CreateUserWithMaxConn ==
  \/ /\ nCalls < MaxLifeCalls
     /\ \E username \in {"", "u1", "u2"}, pw \in Passwords, maxConn \in {1} :
          Enter("CreateUserWithMaxConn", <<>>, "", username, <<pw, maxConn>>,
                ValidateUser(username, pw), FALSE)
  \/ /\ live
     /\ call.op = "CreateUserWithMaxConn"
     /\ \E failed \in Failures :
          RoundTrip(CreateUserWithMaxConnTrip(call.username, call.arg[1], call.arg[2],
                                              failed), failed, FALSE)

UpdateUserMaxConn ==
  \/ /\ nCalls < MaxLifeCalls
     /\ \E username \in {"postgres", "u1", "u2"}, maxConn \in {-1, 2} :
          Enter("UpdateUserMaxConn", <<>>, "", username, <<"", maxConn>>,
                validateUsername(username), FALSE)
  \/ /\ live
     /\ call.op = "UpdateUserMaxConn"
     /\ \E failed \in Failures :
          RoundTrip(UpdateUserMaxConnTrip(call.username, call.arg[2], failed),
                    failed, FALSE)

UpdateUserPassword ==
  \/ /\ nCalls < MaxLifeCalls
     /\ \E username \in LifeUserNames, pw \in Passwords :
          Enter("UpdateUserPassword", <<>>, "", username, <<pw>>,
                ValidateUser(username, pw), FALSE)
  \/ /\ live
     /\ call.op = "UpdateUserPassword"
     /\ \E failed \in Failures :
          RoundTrip(UpdateUserPasswordTrip(call.username, call.arg[1], failed),
                    failed, FALSE)

DeleteUser == DeleteUserBy(LifeUserNames, MaxLifeCalls)

CreateDatabase ==
  \/ /\ nCalls < MaxLifeCalls
     /\ \E dbName \in LifeDBNames :
          Enter("CreateDatabase", <<>>, dbName, "", <<>>, validateDBName(dbName), FALSE)
  \/ /\ live
     /\ call.op = "CreateDatabase"
     /\ \E failed \in Failures :
          RoundTrip(CreateDatabaseTrip(call.dbName, failed), failed, FALSE)

DeleteDatabase ==
  \/ /\ nCalls < MaxLifeCalls
     /\ \E dbName \in LifeDBNames :
          Enter("DeleteDatabase", <<>>, dbName, "", <<>>, validateDBName(dbName), FALSE)
  \/ /\ live
     /\ call.op = "DeleteDatabase"
     /\ \E failed \in Failures :
          RoundTrip(DeleteDatabaseTrip(call.dbName, At, failed), failed, FALSE)

\* Grant of CREATE for a role, as the test of DeleteUser prepares it.
LifeGrant ==
  GrantBy({<<CREATE, dbName, username>> : dbName \in {"db1", "db2"},
                                          username \in {"u1", "u2"}},
          MaxLifeCalls, FALSE)

\* A role that can connect to a database and holds CREATE on its schema
\* public creates a table there.
CreateTable ==
  /\ \E d \in dbs, u \in users :
       /\ CanConnect(acl, u, d)
       /\ [on |-> OnSchema, db |-> d, priv |-> CREATE, grantee |-> u] \in acl
       /\ [db |-> d, owner |-> u] \notin tables
       /\ tables' = tables \cup {[db |-> d, owner |-> u]}
  /\ UNCHANGED <<users, password, connLimit, dbs, acl, dbOwner, schemaOwner, routines>>
  /\ UNCHANGED callVars
  /\ UNCHANGED <<pc, baseUsers, typeChecks, conns, hist, ctrls, ctors, other, pos>>

LifeClose == CloseBy(MaxLifeCalls)

NextLife ==
  \/ CreateUser \/ CreateUserWithMaxConn \/ UpdateUserMaxConn \/ UpdateUserPassword
  \/ DeleteUser
  \/ CreateDatabase \/ DeleteDatabase
  \/ LifeGrant \/ CreateTable
  \/ LifeClose

SpecLife == InitSeq /\ [][NextLife]_vars

\* ------------------------------------------------------------ constructor

\* Further controllers are constructed in the process, with and without
\* WithBadUsernames, by goroutines of their own, while the caller creates
\* and deletes users with the first one: at most MaxCtors calls of the
\* constructor, each recorded in hist when it returns, with the names its
\* options carry, and at most MaxCtorCalls calls of the caller.
MaxCtors == 2

MaxCtorCalls == 2

\* The option returned by WithBadUsernames(usernames), applied to the list
\* it has read: append(baseUsers, usernames...).
WithBadUsernames(list, usernames) == list \o usernames

RECURSIVE Flatten(_)
Flatten(opts) == IF opts = <<>> THEN <<>> ELSE Head(opts) \o Flatten(Tail(opts))

\* The error NewPostgresController makes of sql.Open's with %s: a new error
\* that wraps nothing.
CtorErr == <<"error creating database connection: " \o OpenErr[1]>>

\* The options a constructor is called with: none, one or two
\* WithBadUsernames.
OptLists ==
  { <<>>, << <<"u1">> >>, << <<"u2", "pgbouncer">> >>, << <<"u1">>, <<"u2">> >> }

\* A call of the constructor as hist keeps it.
CtorRecord(names, err) == [op |-> "NewPostgresController", names |-> names, ret |-> err]

\* s without its i-th element.
Without(s, i) == [j \in 1..(Len(s) - 1) |-> IF j < i THEN s[j] ELSE s[j + 1]]

\* NewPostgresController(conn, opts...), a step at a time.  Nothing guards
\* baseUsers: baseUsers = append(baseUsers, usernames...) reads the list and
\* then writes it, and the constructors and the checks of the caller's
\* operations get between the two.
NewPostgresController ==
  \* db, err := sql.Open(...): on an error the constructor returns, its
  \* options not applied.
  \/ /\ Len(hist) + Len(ctors) < MaxCtors
     /\ \E d \in {"postgres", "db1"}, opts \in OptLists, failed \in BOOLEAN :
          IF failed
          THEN /\ hist' = Append(hist, CtorRecord(Flatten(opts), CtorErr))
               /\ UNCHANGED <<ctors, ctrls, conns>>
          ELSE /\ ctors' = Append(ctors, [names |-> Flatten(opts), opts |-> opts,
                                          snap |-> <<>>, read |-> FALSE])
               /\ ctrls' = Append(ctrls, [Database |-> d, Username |-> "postgres"])
               /\ conns' = conns \cup {[of |-> "c.db", Database |-> d]}
               /\ hist' = hist
     /\ UNCHANGED baseUsers
     /\ UNCHANGED serverVars
     /\ UNCHANGED callVars
     /\ UNCHANGED <<pc, typeChecks, other, pos>>
  \* opt(c): the list is read
  \/ /\ \E i \in 1..Len(ctors) :
          /\ ctors[i].opts # <<>>
          /\ ~ctors[i].read
          /\ ctors' = [ctors EXCEPT ![i].snap = baseUsers, ![i].read = TRUE]
     /\ UNCHANGED baseUsers
     /\ UNCHANGED serverVars
     /\ UNCHANGED callVars
     /\ UNCHANGED <<pc, typeChecks, conns, hist, ctrls, other, pos>>
  \* and written, with the names appended to what was read.
  \/ /\ \E i \in 1..Len(ctors) :
          /\ ctors[i].read
          /\ baseUsers' = WithBadUsernames(ctors[i].snap, Head(ctors[i].opts))
          /\ ctors' = [ctors EXCEPT ![i].opts = Tail(@), ![i].snap = <<>>,
                                    ![i].read = FALSE]
     /\ UNCHANGED serverVars
     /\ UNCHANGED callVars
     /\ UNCHANGED <<pc, typeChecks, conns, hist, ctrls, other, pos>>
  \* return c, nil
  \/ /\ \E i \in 1..Len(ctors) :
          /\ ctors[i].opts = <<>>
          /\ hist' = Append(hist, CtorRecord(ctors[i].names, Nil))
          /\ ctors' = Without(ctors, i)
     /\ UNCHANGED baseUsers
     /\ UNCHANGED serverVars
     /\ UNCHANGED callVars
     /\ UNCHANGED <<pc, typeChecks, conns, ctrls, other, pos>>

CtorUserNames == {"u1", "u2", "pgbouncer"}

CtorCreateUser == CreateUserBy(CtorUserNames, {"new_password"}, MaxCtorCalls)

CtorDeleteUser == DeleteUserBy(CtorUserNames, MaxCtorCalls)

NextCtor == NewPostgresController \/ CtorCreateUser \/ CtorDeleteUser

\* The first controller is attached to postgres, built with or without the
\* option.
InitCtor == Init /\ pc.Database = "postgres" /\ typeChecks

SpecCtor == InitCtor /\ [][NextCtor]_vars

\* ================================================================== claims

Range(s) == {s[i] : i \in 1..Len(s)}

\* The identifiers a call is refused for, as the specification lists them.
RefusedDBName(dbName)     == dbName \in {"", "postgres", "template0", "template1"}
RefusedUsername(username) == username = "" \/ username \in Range(baseUsers)

UsableIds == ~RefusedDBName(call.dbName) /\ ~RefusedUsername(call.username)

\* The caller's last call has returned.
Returned == call.op # "" /\ ~live

\* No other caller has called the controller: what has changed on the
\* server, the caller's calls have changed.  (The specification leaves it
\* to the callers to keep others out when they need the state a call
\* leaves.)
Alone == ~other.used

\* The call sent nothing to the server, and the server is as it was unless
\* another caller has changed it.
NoServerCall == log = <<>> /\ queries = <<>> /\ (Alone => acl = pre)

\* C1: a privilege name that, upper-cased, is empty or outside the catalog
\* makes Grant and Revoke (with a usable database name and username) return
\* an error wrapping ErrInvalidGrant without any server call.
C1_InvalidPrivilegeRejected ==
  ( /\ call.op \in {"Grant", "Revoke"}
    /\ UsableIds
    /\ ToUpper(call.grantName) \notin
         { SELECT, INSERT, UPDATE, DELETE, TRUNCATE, REFERENCES, TRIGGER,
           CONNECT, TEMPORARY, EXECUTE, USAGE, CREATE } )
  => /\ Returned
     /\ ErrorsIs(ret, ErrInvalidGrant)
     /\ ret[1] = "error validating grant"
     /\ NoServerCall

C1_Witness ==
  /\ call = [op |-> "Revoke", grantName |-> InvalidGrant, dbName |-> "db1",
             username |-> "u1", arg |-> <<>>]
  /\ ErrorsIs(ret, ErrInvalidGrant)
  /\ NoServerCall
  /\ acl = pre

\* C2: Grant, Revoke, GrantAll and RevokeAll called with an empty or reserved
\* database name, or an empty or reserved username, return a validation
\* error without any server call.
C2_BadIdentifierRejected ==
  ( /\ call.op \in {"Grant", "Revoke", "GrantAll", "RevokeAll"}
    /\ RefusedDBName(call.dbName) \/ RefusedUsername(call.username) )
  => /\ Returned
     /\ ret # Nil
     /\ ret[1] \in {"error validating database name", "error validating username"}
     /\ NoServerCall

C2_Witness ==
  /\ call.op = "RevokeAll"
  /\ call.dbName = "db1"
  /\ call.username = "admin"
  /\ baseUsers = <<"postgres", "admin">>
  /\ ret = <<"error validating username", "username is reserved">>
  /\ log = <<>> /\ queries = <<>> /\ acl = pre

\* C3: GrantAll for a principal that does not exist returns exactly
\* ErrUserDoesNotExist, whether or not the database exists; for an existing
\* principal and a database that does not exist it returns exactly
\* ErrDBDoesNotExist; in both cases no grant statement is sent.  (The
\* existence queries are answered: fault = 0.)
C3_GrantAllNotFound ==
  ( call.op = "GrantAll" /\ Returned /\ UsableIds /\ fault = 0 )
  => /\ call.username \notin users
          => ret = ErrUserDoesNotExist /\ log = <<>> /\ (Alone => acl = pre)
     /\ (call.username \in users /\ call.dbName \notin dbs)
          => ret = ErrDBDoesNotExist /\ log = <<>> /\ (Alone => acl = pre)

\* Neither the principal nor the database exists: the principal is reported.
C3_Witness ==
  /\ call = [op |-> "GrantAll", grantName |-> <<>>, dbName |-> "db2", username |-> "u2",
             arg |-> <<>>]
  /\ Returned
  /\ fault = 0
  /\ ret = ErrUserDoesNotExist
  /\ Len(queries) = 1

\* The six statements of GrantAll, as the specification orders them.
GrantAllStatements(dbName, username) ==
  << Stmt("GRANT", <<CONNECT>>, OnDatabase, dbName, username),
     Stmt("GRANT", <<USAGE, CREATE>>, OnSchema, "", username),
     Stmt("GRANT", <<ALL_PRIVILEGES>>, OnTables, "", username),
     Stmt("GRANT", <<ALL_PRIVILEGES>>, OnSequences, "", username),
     Stmt("GRANT", <<ALL_PRIVILEGES>>, DefTables, "", username),
     Stmt("GRANT", <<ALL_PRIVILEGES>>, DefSequences, "", username) >>

\* C4: a GrantAll in which every statement succeeds sends exactly the six
\* statements, once each, in the order CONNECT, schema USAGE and CREATE,
\* existing tables, existing sequences, future tables, future sequences.
C4_GrantAllOrder ==
  ( call.op = "GrantAll" /\ Returned /\ ret = Nil )
  => log = GrantAllStatements(call.dbName, call.username)

C4_Witness ==
  /\ call.op = "GrantAll"
  /\ Returned
  /\ ret = Nil
  /\ Len(log) = 6
  /\ acl # pre

\* The text each step of GrantAll is reported with.
GrantAllStepNames ==
  << "grant CONNECT failed", "grant SCHEMA privileges failed", "grant TABLES failed",
     "grant SEQUENCES failed", "default privileges for TABLES failed",
     "default privileges for SEQUENCES failed" >>

\* The k-th statement of the last GrantAll failed: k statements were sent
\* and the call returned an error.
GrantAllFailedAt(k) ==
  call.op = "GrantAll" /\ Returned /\ ret # Nil /\ Len(log) = k

\* C5: when the k-th statement of GrantAll fails, the call returns with it,
\* the error names step k (the six names differ), statements k+1..6 are not
\* sent, and the effects of statements 1..k-1 stay on the server.
C5_GrantAllAbort ==
  /\ (call.op = "GrantAll" /\ fault # 0) => (~live /\ At = fault)
  /\ \A k \in 1..6 :
       GrantAllFailedAt(k)
       => /\ ret = Wrap(GrantAllStepNames[k], ServerErr)
          /\ log = SubSeq(GrantAllStatements(call.dbName, call.username), 1, k)
          /\ Alone => acl = ApplyAll(pre, SubSeq(GrantAllStatements(call.dbName,
                                                                    call.username), 1, k - 1))
          /\ \A j \in 1..6 : j # k => GrantAllStepNames[j] # GrantAllStepNames[k]

\* The fourth statement fails after three that changed the server.
C5_Witness ==
  /\ GrantAllFailedAt(4)
  /\ Alone
  /\ fault = 6
  /\ acl # pre
  /\ ret = <<"grant SEQUENCES failed", "server error">>

\* The six statements of RevokeAll, as the specification orders them.
RevokeAllStatements(dbName, username) ==
  << Stmt("REVOKE", <<CONNECT>>, OnDatabase, dbName, username),
     Stmt("REVOKE", <<ALL_PRIVILEGES>>, OnTables, "", username),
     Stmt("REVOKE", <<ALL_PRIVILEGES>>, OnSequences, "", username),
     Stmt("REVOKE", <<USAGE, CREATE>>, OnSchema, "", username),
     Stmt("REVOKE", <<ALL_PRIVILEGES>>, DefTables, "", username),
     Stmt("REVOKE", <<ALL_PRIVILEGES>>, DefSequences, "", username) >>

\* C6: RevokeAll sends no existence query; when it succeeds it has sent
\* exactly the six revoke statements in order; when it fails it has sent a
\* proper start of them, the last one sent being the one that failed.
C6_RevokeAllOrder ==
  call.op = "RevokeAll"
  => /\ queries = <<>>
     /\ (Returned /\ ret = Nil) => log = RevokeAllStatements(call.dbName, call.username)
     /\ (Returned /\ ret # Nil /\ UsableIds)
          => /\ Len(log) \in 1..6
             /\ log = SubSeq(RevokeAllStatements(call.dbName, call.username), 1, Len(log))
             /\ Alone => acl = ApplyAll(pre, SubSeq(log, 1, Len(log) - 1))

\* RevokeAll succeeds for a principal and a database nobody checked.
C6_Witness ==
  /\ call.op = "RevokeAll"
  /\ Returned
  /\ ret = Nil
  /\ Len(log) = 6
  /\ queries = <<>>
  /\ acl # pre

\* The name of the last call as the catalog spells it.
Privilege == ToUpper(call.grantName)

\* The statements of a successful Grant, by the class of the privilege, as
\* the specification gives them.
GrantStatements(p, dbName, username) ==
  CASE p \in {CONNECT, TEMPORARY} ->
         << Stmt("GRANT", <<p>>, OnDatabase, dbName, username) >>
    [] p = USAGE ->
         << Stmt("GRANT", <<USAGE>>, OnSchema, "", username),
            Stmt("GRANT", <<USAGE>>, DefSequences, "", username) >>
    [] p = CREATE ->
         << Stmt("GRANT", <<CREATE>>, OnSchema, "", username) >>
    [] p = EXECUTE ->
         << Stmt("GRANT", <<EXECUTE>>, OnFunctions, "", username),
            Stmt("GRANT", <<EXECUTE>>, DefFunctions, "", username) >>
    [] p \in {SELECT, INSERT, UPDATE, DELETE, TRUNCATE, REFERENCES, TRIGGER} ->
         << Stmt("GRANT", <<p>>, OnTables, "", username),
            Stmt("GRANT", <<p>>, DefTables, "", username) >>

\* C7: a fully successful Grant(p, db, user) sends exactly the statements of
\* the class of p: database scope for CONNECT and TEMPORARY; schema, then
\* future sequences, for USAGE; schema only for CREATE; existing, then
\* future, routines for EXECUTE; existing, then future, tables for the rest.
C7_GrantStatements ==
  ( call.op = "Grant" /\ Returned /\ ret = Nil )
  => log = GrantStatements(Privilege, call.dbName, call.username)

\* CREATE is granted on the schema and nothing else is sent.
C7_Witness ==
  /\ call.op = "Grant"
  /\ Privilege = CREATE
  /\ Returned
  /\ ret = Nil
  /\ Len(log) = 1
  /\ acl # pre

\* C8: Revoke of CONNECT sends exactly one statement, at database scope.  A
\* fully successful Revoke of any other privilege p sends: p on all existing
\* tables, the default-privilege entry of p for future tables, and p on
\* schema public exactly when p is USAGE or CREATE.
C8_RevokeStatements ==
  /\ ( call.op = "Revoke" /\ Returned /\ UsableIds /\ Privilege = CONNECT )
     => log = << Stmt("REVOKE", <<CONNECT>>, OnDatabase, call.dbName, call.username) >>
  /\ ( call.op = "Revoke" /\ Returned /\ ret = Nil /\ Privilege # CONNECT )
     => /\ Len(log) = IF Privilege \in {USAGE, CREATE} THEN 3 ELSE 2
        /\ log[1] = Stmt("REVOKE", <<Privilege>>, OnTables, "", call.username)
        /\ log[2] = Stmt("REVOKE", <<Privilege>>, DefTables, "", call.username)
        /\ Privilege \in {USAGE, CREATE}
             => log[3] = Stmt("REVOKE", <<Privilege>>, OnSchema, "", call.username)

\* A successful Revoke of USAGE, with its third statement.
C8_Witness ==
  /\ call.op = "Revoke"
  /\ Privilege = USAGE
  /\ Returned
  /\ ret = Nil
  /\ Len(log) = 3
  /\ acl # pre

\* ---------------------------------------------------------------- sessions

\* What a principal holds in its own name.
Held(a, username) == {e \in a : e.grantee = username}

\* Every call of the session has returned and is in hist, and no other
\* caller has called.
Quiet == ~live /\ nCalls = Len(hist) /\ Alone

\* The i-th call of the session, when it returned success.
Succeeded(i, op, grantName, dbName, username) ==
  /\ i \in 1..Len(hist)
  /\ hist[i].op = op
  /\ hist[i].grantName = grantName
  /\ hist[i].dbName = dbName
  /\ hist[i].username = username
  /\ hist[i].ret = Nil

\* The last two calls of the session were Grant(p, db, user), which
\* succeeded from a state in which the principal held nothing, and
\* Revoke(p, db, user), which succeeded.
GrantThenRevoke(p, dbName, username) ==
  /\ Quiet
  /\ Len(hist) >= 2
  /\ Succeeded(Len(hist) - 1, "Grant", p, dbName, username)
  /\ Held(hist[Len(hist) - 1].pre, username) = {}
  /\ Succeeded(Len(hist), "Revoke", p, dbName, username)

\* C9: Revoke is the inverse of Grant: a successful Grant(p, db, user) from
\* a state in which the principal holds nothing, followed by a successful
\* Revoke(p, db, user), leaves the principal holding nothing.
C9_RevokeInvertsGrant ==
  \A p \in grants :
    GrantThenRevoke(p, "db1", "u1") => Held(acl, "u1") = {}

\* C10 as written: Grant("CONNECT") then Revoke("CONNECT"), both successful,
\* leave the principal unable to connect to the database.
C10_CannotConnect ==
  GrantThenRevoke(CONNECT, "db1", "u1") => ~CanConnect(acl, "u1", "db1")

\* C10, amended: Grant("CONNECT") then Revoke("CONNECT"), both successful,
\* leave the principal without a CONNECT entry of its own on the database;
\* it can connect afterwards exactly when PUBLIC holds CONNECT there.
C10_NoOwnConnect ==
  GrantThenRevoke(CONNECT, "db1", "u1")
  => /\ [on |-> OnDatabase, db |-> "db1", priv |-> CONNECT, grantee |-> "u1"] \notin acl
     /\ CanConnect(acl, "u1", "db1")
          <=> [on |-> OnDatabase, db |-> "db1", priv |-> CONNECT,
               grantee |-> PUBLIC] \in acl

\* Revoke("CONNECT") has removed the entry Grant("CONNECT") had added, and
\* the principal still connects through PUBLIC.
C10_Witness ==
  /\ GrantThenRevoke(CONNECT, "db1", "u1")
  /\ Held(pre, "u1") =
       {[on |-> OnDatabase, db |-> "db1", priv |-> CONNECT, grantee |-> "u1"]}
  /\ Held(acl, "u1") = {}
  /\ CanConnect(acl, "u1", "db1")

\* The session was Grant(p, db, user), GrantAll(db, user), RevokeAll(db, user),
\* each returning success.
GrantThenBundle(p, dbName, username) ==
  /\ Quiet
  /\ Len(hist) = 3
  /\ Succeeded(1, "Grant", p, dbName, username)
  /\ Succeeded(2, "GrantAll", <<>>, dbName, username)
  /\ Succeeded(3, "RevokeAll", <<>>, dbName, username)

\* What a successful Grant(p, db, user) adds, and what a successful
\* GrantAll(db, user) adds (its bundle).
GrantEntries(p, dbName, username) ==
  ApplyAll({}, GrantStatements(p, dbName, username))

BundleEntries(dbName, username) ==
  ApplyAll({}, GrantAllStatements(dbName, username))

\* The table and sequence access of the bundle.
BundleAccess(dbName, username) ==
  {e \in BundleEntries(dbName, username) :
     e.on \in {OnTables, OnSequences, DefTables, DefSequences}}

\* C11 as written: a privilege granted by a separate Grant before GrantAll
\* is still held after GrantAll and RevokeAll (the principal can still
\* connect), while the table and sequence access GrantAll added is gone.
C11_SeparateGrantKept ==
  \A p \in {CONNECT, SELECT} :
    GrantThenBundle(p, "db1", "u1")
    => /\ GrantEntries(p, "db1", "u1") \subseteq acl
       /\ CanConnect(acl, "u1", "db1")
       /\ (BundleAccess("db1", "u1") \ GrantEntries(p, "db1", "u1")) \cap acl = {}

\* C11, amended: RevokeAll removes every entry of the bundle, whichever call
\* added it.  After Grant(p), GrantAll and RevokeAll, all successful, the
\* principal holds only what Grant(p) added outside the bundle (nothing for
\* CONNECT, SELECT and USAGE), the table and sequence access is gone, and
\* the principal can connect exactly when PUBLIC holds CONNECT there.
C11_RevokeAllRemovesBundle ==
  \A p \in SeqGrantNames :
    GrantThenBundle(p, "db1", "u1")
    => /\ Held(acl, "u1") = GrantEntries(p, "db1", "u1") \ BundleEntries("db1", "u1")
       /\ p \in {CONNECT, SELECT, USAGE} => Held(acl, "u1") = {}
       /\ BundleAccess("db1", "u1") \cap acl = {}
       /\ CanConnect(acl, "u1", "db1")
            <=> [on |-> OnDatabase, db |-> "db1", priv |-> CONNECT,
                 grantee |-> PUBLIC] \in acl

\* The separately granted SELECT went with the bundle.
C11_Witness ==
  /\ GrantThenBundle(SELECT, "db1", "u1")
  /\ Held(pre, "u1") = BundleEntries("db1", "u1")
  /\ Held(acl, "u1") = {}

\* The principal holds no entry of privilege p.
NeverGranted(a, p, username) ==
  \A e \in a : ~(e.grantee = username /\ e.priv = p)

\* C12: for every catalog privilege p, Revoke(p, db, user) for an existing
\* database and principal that was never granted p, with the server
\* answering (no fault) and no other caller, returns success and leaves the
\* privileges as they were.
C12_RevokeAbsentSucceeds ==
  ( /\ call.op = "Revoke"
    /\ Returned
    /\ Alone
    /\ UsableIds
    /\ Privilege \in grants
    /\ call.username \in users
    /\ call.dbName \in dbs
    /\ NeverGranted(pre, Privilege, call.username)
    /\ fault = 0 )
  => ret = Nil /\ acl = pre

\* The server's answer to the i-th statement the last call sent.
StatementSucceeded(i) ==
  /\ i \in 1..Len(log)
  /\ fault # Len(queries) + i
  /\ ServerAccepts(log[i])

StatementFailed(i) == i \in 1..Len(log) /\ ~StatementSucceeded(i)

\* The Exec calls of the last call, each with the label of its error.
LastPlan ==
  CASE call.op = "Grant"     -> GrantPlan(Privilege, call.dbName, call.username)
    [] call.op = "Revoke"    -> RevokePlan(Privilege, call.dbName, call.username)
    [] call.op = "GrantAll"  -> GrantAllPlan(call.dbName, call.username)
    [] call.op = "RevokeAll" -> RevokeAllPlan(call.dbName, call.username)

\* C13: privilege names are case-insensitive: Grant and Revoke called with
\* a spelling q that is not the upper-case one pass the checks that the
\* upper-case name passes and return the error it is refused with; past the
\* checks they send the statements of the upper-case name, in its order,
\* up to the first that fails, return what that one is reported with (nil
\* when none fails) and leave what the statements that succeeded do.
C13_CaseInsensitive ==
  ( call.op \in {"Grant", "Revoke"} /\ Returned /\ Privilege # call.grantName )
  => LET chk == ValidateCall(Privilege, call.dbName, call.username)
     IN  IF chk # Nil
         THEN ret = chk /\ NoServerCall
         ELSE /\ Len(log) \in 1..Len(LastPlan)
              /\ \A i \in 1..Len(log) : log[i] = LastPlan[i].stmt
              /\ \A i \in 1..(Len(log) - 1) : StatementSucceeded(i)
              /\ ret = IF StatementFailed(Len(log)) THEN Labelled(LastPlan[Len(log)])
                       ELSE Nil
              /\ ret = Nil => Len(log) = Len(LastPlan)
              /\ Alone => acl = ApplyAll(pre, SubSeq(log, 1,
                                    IF ret = Nil THEN Len(log) ELSE Len(log) - 1))

\* Grant("select") did what Grant("SELECT") does.
C13_Witness ==
  /\ call.op = "Grant"
  /\ call.grantName = LowerSelect
  /\ call.grantName # SELECT
  /\ Returned
  /\ ret = Nil
  /\ log = GrantStatements(SELECT, call.dbName, call.username)
  /\ acl # pre

\* C14: Grant returns success exactly when every statement of its plan was
\* sent and succeeded; when the first statement of a two-statement plan
\* succeeds and the second fails, Grant returns an error and the effect of
\* the first statement stays on the server.
C14_GrantSuccess ==
  ( call.op = "Grant" /\ Returned /\ UsableIds /\ Privilege \in grants )
  => LET plan == GrantStatements(Privilege, call.dbName, call.username)
     IN  /\ ret = Nil <=> ( /\ log = plan
                            /\ \A i \in 1..Len(plan) : StatementSucceeded(i) )
         /\ ( Len(plan) = 2 /\ StatementSucceeded(1) /\ StatementFailed(2) )
              => /\ ret # Nil
                 /\ Alone => acl = Apply(pre, plan[1])

\* The grant on the existing tables stays when the default-privilege
\* statement fails.
C14_Witness ==
  /\ call.op = "Grant"
  /\ Privilege = SELECT
  /\ Returned
  /\ Alone
  /\ StatementSucceeded(1)
  /\ StatementFailed(2)
  /\ ret # Nil
  /\ acl = Apply(pre, log[1])
  /\ acl # pre

\* The principal's own CONNECT entry on a database.
OwnConnect(a, username, dbName) ==
  [on |-> OnDatabase, db |-> dbName, priv |-> CONNECT, grantee |-> username] \in a

\* The last call was a successful GrantAll or Grant("CONNECT").
ConnectGranted ==
  /\ call.op \in {"GrantAll", "Grant"}
  /\ call.op = "Grant" => Privilege = CONNECT
  /\ Returned
  /\ ret = Nil

\* The step is a round trip of a Revoke or a RevokeAll for the database and
\* the principal, the caller's or the other caller's.
RevokeStep(dbName, username) ==
  \/ /\ live
     /\ call.op \in {"Revoke", "RevokeAll"}
     /\ call.dbName = dbName
     /\ call.username = username
     /\ log' # log
  \/ /\ other.op \in {"Revoke", "RevokeAll"}
     /\ dbName = "db1"
     /\ username = "u1"
     /\ other' # other

\* C15: after a successful GrantAll(db, user) or Grant("CONNECT", db, user)
\* with no other caller, the principal holds CONNECT on db and can connect
\* to it; and a principal that holds CONNECT on a database keeps it, and
\* can connect, through every step that is not a statement of a Revoke or a
\* RevokeAll for that database and principal.
C15_ConnectKept ==
  [][ /\ (ConnectGranted' /\ Alone')
          => /\ OwnConnect(acl', call'.username, call'.dbName)
             /\ CanConnect(acl', call'.username, call'.dbName)
      /\ \A u \in users, d \in dbs :
           (OwnConnect(acl, u, d) /\ ~RevokeStep(d, u))
           => /\ OwnConnect(acl', u, d)
              /\ CanConnect(acl', u, d) ]_vars

\* u1 was granted CONNECT on db1, where PUBLIC has none; then CONNECT on
\* db1 was revoked from another principal, and u1 still connects.
C15_Witness ==
  /\ nCalls = 2
  /\ call = [op |-> "Revoke", grantName |-> CONNECT, dbName |-> "db1", username |-> "admin",
             arg |-> <<>>]
  /\ Returned
  /\ ret = Nil
  /\ ~OwnConnect(acl, PUBLIC, "db1")
  /\ OwnConnect(pre, "u1", "db1")
  /\ CanConnect(acl, "u1", "db1")

\* ---------------------------------------------------------------- ownership

\* The step is a call of an ownership transfer, which is made and returns in
\* it.
Transfers(op) == call'.op = op /\ nCalls' = nCalls + 1

\* C16: TransferDatabaseOwnership(db, newOwner) sends exactly one statement
\* and no existence query; when it succeeds the owner of db is newOwner and
\* no other database changes owner; when the server rejects the statement
\* (newOwner or db does not exist) the server's error is returned as it is
\* and no owner changes.
C16_TransferDatabaseOwnership ==
  [][ Transfers("TransferDatabaseOwnership")
      => /\ log' = << Stmt("ALTER", <<>>, AlterDatabase, call'.dbName, call'.username) >>
         /\ queries' = <<>>
         /\ opened' = <<>>
         /\ ret' = Nil
              => /\ call'.dbName \in dbs
                 /\ dbOwner'[call'.dbName] = call'.username
                 /\ \A d \in dbs \ {call'.dbName} : dbOwner'[d] = dbOwner[d]
         /\ (call'.username \notin users \/ call'.dbName \notin dbs) => ret' # Nil
         /\ ret' # Nil => ret' = ServerErr /\ dbOwner' = dbOwner
         /\ schemaOwner' = schemaOwner /\ acl' = acl ]_vars

\* db1 went from postgres to u1.
C16_Witness ==
  /\ call = [op |-> "TransferDatabaseOwnership", grantName |-> <<>>,
              dbName |-> "db1", username |-> "u1", arg |-> <<>>]
  /\ ret = Nil
  /\ dbOwner["db1"] = "u1"
  /\ dbOwner["postgres"] = "postgres"

\* C17: after a successful TransferPublicSchemaOwnership(db, newOwner) the
\* owner of schema public in every database other than db, the one c.db is
\* attached to included, is who it was, and the owner of schema public in db
\* is newOwner.
C17_TransferPublicSchemaOwnership ==
  [][ (Transfers("TransferPublicSchemaOwnership") /\ ret' = Nil)
      => /\ \A d \in dbs \ {call'.dbName} : schemaOwner'[d] = schemaOwner[d]
         /\ pc.Database # call'.dbName
              => schemaOwner'[pc.Database] = schemaOwner[pc.Database]
         /\ call'.dbName \in dbs
         /\ schemaOwner'[call'.dbName] = call'.username ]_vars

\* C18: on every way out of TransferPublicSchemaOwnership (success, the
\* statement failing, sql.Open failing) no handle the call opened is still
\* open, and c.db is the handle it was, open if it was open.
C18_ConnectionReleased ==
  [][ Transfers("TransferPublicSchemaOwnership")
      => /\ \A i \in 1..Len(opened') : opened'[i] \notin conns'
         /\ conns' = conns
         /\ pc' = pc
         /\ ret' = Nil \/ ret' = ServerErr
               \/ (ret'[1] = "failed to connect to " \o call'.dbName /\ opened' = <<>>) ]_vars

\* The statement failed over a handle that was opened, and the handle is
\* closed, c.db still open.
C18_Witness ==
  /\ call.op = "TransferPublicSchemaOwnership"
  /\ call.dbName = "db1"
  /\ ret = ServerErr
  /\ opened = <<PerDbConn("db1")>>
  /\ conns = {ControllerConn}

\* ------------------------------------------------------------------ labels

\* The last call sent statements and the last one it sent failed.
ExecFailed ==
  /\ call.op \in {"Grant", "Revoke", "GrantAll", "RevokeAll"}
  /\ Returned
  /\ log # <<>>
  /\ StatementFailed(Len(log))

\* C19: a statement of Grant, Revoke, GrantAll or RevokeAll that fails is
\* returned as the server's error wrapped in a label, and the label is that
\* of no other step of the operation, whatever the privilege and the step.
C19_FailureNamesStep ==
  ExecFailed
  => LET k == Len(log)
     IN  /\ Len(ret) = 2
         /\ ret[2] = ServerErr[1]
         /\ ret[1] # ""
         /\ ret[1] = LastPlan[k].label
         /\ \A j \in 1..Len(LastPlan) : j # k => LastPlan[j].label # ret[1]

\* ---------------------------------------------------------------- routines

\* C20: after a successful Grant("EXECUTE", db, user) the principal can
\* execute every routine of db, those that existed when the grant was made
\* and those created since, with no further grant.
C20_ExecuteEveryRoutine ==
  ( call.op = "Grant" /\ Returned /\ Privilege = EXECUTE /\ ret = Nil )
  => \A r \in routines : r.db = call.dbName => CanExecute(call.username, r)

\* Both concurrent callers have returned nil.
BothReturnedNil ==
  /\ call.op = "Grant||Revoke"
  /\ \A op \in {"Grant", "Revoke"} :
       ~pos[op].live /\ pos[op].ret = Nil /\ pos[op].at = Len(ConcPlan(op))

\* Where a statement stands in the order of arrival.
Arrival(stmt) == CHOOSE i \in 1..Len(log) : log[i] = stmt

PlanStmts(op) == [i \in 1..Len(ConcPlan(op)) |-> ConcPlan(op)[i].stmt]

\* C21: when Grant(p, db, user) and Revoke(p, db, user) for a table
\* privilege p run concurrently and both return nil, the server is left as
\* the statements leave it in their order of arrival: the principal holds p
\* on the tables exactly when Revoke's statement on the tables arrived before
\* Grant's, and holds p by default on future tables exactly when Revoke's
\* statement on the default privileges arrived before Grant's, so that
\* different interleavings end in different privilege states.
C21_ArrivalOrderDecides ==
  (BothReturnedNil /\ Privilege \in TablePrivileges)
  => LET g == PlanStmts("Grant")
         r == PlanStmts("Revoke")
     IN  /\ acl = ApplyAll(pre, log)
         /\ Entries(g[1]) \subseteq acl <=> Arrival(r[1]) < Arrival(g[1])
         /\ Entries(g[2]) \subseteq acl <=> Arrival(r[2]) < Arrival(g[2])

\* The two calls have interleaved and left a state that neither call
\* running after the other leaves.
C21_Witness ==
  /\ BothReturnedNil
  /\ Privilege \in TablePrivileges
  /\ acl # ApplyAll(pre, PlanStmts("Grant") \o PlanStmts("Revoke"))
  /\ acl # ApplyAll(pre, PlanStmts("Revoke") \o PlanStmts("Grant"))

\* ------------------------------------------------------ roles and databases

\* The step is the round trip after which a call of op returns.
Returns(op) == live /\ call.op = op /\ ~live'

\* The step is the round trip after which a call of op returns, all its
\* round trips answered.
Answered(op) == Returns(op) /\ fault' = 0

\* The step is a call of op being made.
Called(op) == call'.op = op /\ nCalls' = nCalls + 1

\* C22: DeleteUser on an existing user with a usable name returns nil and
\* removes the user, whatever the user has been granted and owns: afterwards
\* UserExists is false and the user cannot connect; DeleteUser on a user that
\* does not exist returns an error.
C22_DeleteUserRemoves ==
  [][ Answered("DeleteUser")
      => IF call.username \in users
         THEN /\ ret' = Nil
              /\ ~(UserExists(call.username, FALSE).exists)'
              /\ (\A d \in dbs : ~CanConnect(acl, call.username, d))'
         ELSE ret' # Nil ]_vars

\* The step is the return of a call of op for database n with nil.
DBCallSucceeded(op, n) == Returns(op) /\ call.dbName = n /\ ret' = Nil

\* C23: across the calls, DatabaseExists(n) for a usable name n is true
\* exactly when n was created and not deleted since (a successful
\* CreateDatabase(n) makes it true, a successful DeleteDatabase(n) false, and
\* nothing else changes it); CreateDatabase of an existing name returns
\* ErrDBExists and DeleteDatabase of an absent name ErrDBDoesNotExist, both
\* leaving the set of databases as it was; CreateDatabase and DeleteDatabase
\* with an empty or a base name return an error without any statement.
C23_DatabaseLifecycle ==
  [][ /\ \A n \in LifeDBNames :
           validateDBName(n) = Nil
           => (DatabaseExists(n, FALSE).exists)'
                = IF DBCallSucceeded("CreateDatabase", n) THEN TRUE
                  ELSE IF DBCallSucceeded("DeleteDatabase", n) THEN FALSE
                  ELSE DatabaseExists(n, FALSE).exists
      /\ (Answered("CreateDatabase") /\ call.dbName \in dbs)
         => ret' = ErrDBExists /\ dbs' = dbs
      /\ (Answered("DeleteDatabase") /\ call.dbName \notin dbs)
         => ret' = ErrDBDoesNotExist /\ dbs' = dbs
      /\ ((Called("CreateDatabase") \/ Called("DeleteDatabase"))
          /\ RefusedDBName(call'.dbName))
         => ret' # Nil /\ ~live' /\ log' = <<>> /\ dbs' = dbs ]_vars

\* db2 has been created and then deleted.
C23_Witness ==
  /\ call.op = "DeleteDatabase"
  /\ call.dbName = "db2"
  /\ Returned
  /\ ret = Nil
  /\ Len(log) = 2
  /\ ~DatabaseExists("db2", FALSE).exists

\* The step is the return of a call of op for user n with nil.
UserCallSucceeded(op, n) == Returns(op) /\ call.username = n /\ ret' = Nil

\* C24: across the calls, UserExists(u) for a usable name u is true exactly
\* when u was created and not deleted since; CreateUser of an existing user
\* returns ErrUserExists and UpdateUserPassword of an absent user
\* ErrUserDoesNotExist, both leaving the set of users as it was; and a
\* CreateUser that returns nil makes ListUsers longer by exactly one.
C24_UserLifecycle ==
  [][ /\ \A u \in LifeUserNames :
           validateUsername(u) = Nil
           => (UserExists(u, FALSE).exists)'
                = IF \/ UserCallSucceeded("CreateUser", u)
                     \/ UserCallSucceeded("CreateUserWithMaxConn", u) THEN TRUE
                  ELSE IF UserCallSucceeded("DeleteUser", u) THEN FALSE
                  ELSE UserExists(u, FALSE).exists
      /\ (Answered("CreateUser") /\ call.username \in users)
         => ret' = ErrUserExists /\ users' = users
      /\ (Answered("UpdateUserPassword") /\ call.username \notin users)
         => ret' = ErrUserDoesNotExist /\ users' = users
      /\ (Returns("CreateUser") /\ ret' = Nil)
         => Cardinality(ListUsers') = Cardinality(ListUsers) + 1 ]_vars

\* What a principal holds below the database level (on the schema, the
\* tables, the sequences and the routines, and by default on future ones)
\* in database d.
HeldInside(a, username, d) ==
  {e \in a : e.grantee = username /\ e.db = d /\ e.on # OnDatabase}

\* C25: Grant, Revoke, GrantAll and RevokeAll called for database db leave,
\* in every database d other than db, the principal's schema, table,
\* sequence, routine and default privileges as they were before the call
\* (no other caller having called).
C25_OtherDatabasesUntouched ==
  ( call.op \in {"Grant", "Revoke", "GrantAll", "RevokeAll"} /\ Alone )
  => \A d \in dbs \ {call.dbName} :
       HeldInside(acl, call.username, d) = HeldInside(pre, call.username, d)

\* C26: TransferDatabaseOwnership and TransferPublicSchemaOwnership called
\* with an empty or reserved database name, or an empty or reserved owner
\* name, return an error with no statement sent and no connection opened.
C26_TransferValidates ==
  ( /\ call.op \in {"TransferDatabaseOwnership", "TransferPublicSchemaOwnership"}
    /\ RefusedDBName(call.dbName) \/ RefusedUsername(call.username) )
  => ret # Nil /\ log = <<>> /\ opened = <<>>

\* The statements the last call has ahead of it once its checks have passed.
LastStatements ==
  IF call.op = "TransferDatabaseOwnership"
  THEN <<Stmt("ALTER", <<>>, AlterDatabase, call.dbName, call.username)>>
  ELSE IF call.op = "TransferPublicSchemaOwnership"
  THEN <<Stmt("ALTER", <<>>, AlterSchema, "", call.username)>>
  ELSE [i \in 1..Len(LastPlan) |-> LastPlan[i].stmt]

\* C27: within one call of Grant, Revoke, GrantAll, RevokeAll or an
\* ownership transfer, the statements sent are the first ones of the plan,
\* in its order and each once, and a statement that fails is the last one
\* sent.
C27_NoRetry ==
  call.op \in {"Grant", "Revoke", "GrantAll", "RevokeAll",
               "TransferDatabaseOwnership", "TransferPublicSchemaOwnership"}
  => /\ Len(log) <= Len(LastStatements)
     /\ \A i \in 1..Len(log) : log[i] = LastStatements[i]
     /\ \A i, j \in 1..Len(log) : i # j => log[i] # log[j]
     /\ \A i \in 1..Len(log) : StatementFailed(i) => (i = Len(log) /\ ~live /\ ret # Nil)
     /\ (ret # Nil /\ log # <<>> /\ Alone)
          => acl = ApplyAll(pre, SubSeq(log, 1, Len(log) - 1))

\* GrantAll's third statement failed and nothing was sent after it.
C27_Witness ==
  /\ call.op = "GrantAll"
  /\ Returned
  /\ Len(log) = 3
  /\ StatementFailed(3)
  /\ ret # Nil

\* The statements of a call c of Grant, Revoke, GrantAll or RevokeAll that
\* goes through.
CallStatements(c) ==
  LET plan == CASE c.op = "Grant"     -> GrantPlan(ToUpper(c.grantName), c.dbName, c.username)
                [] c.op = "Revoke"    -> RevokePlan(ToUpper(c.grantName), c.dbName, c.username)
                [] c.op = "GrantAll"  -> GrantAllPlan(c.dbName, c.username)
                [] c.op = "RevokeAll" -> RevokeAllPlan(c.dbName, c.username)
  IN  [i \in 1..Len(plan) |-> plan[i].stmt]

\* The last two calls of the session were the same call, and the second
\* returned nil.
Repeated ==
  /\ Quiet
  /\ Len(hist) >= 2
  /\ hist[Len(hist)].op = hist[Len(hist) - 1].op
  /\ hist[Len(hist)].grantName = hist[Len(hist) - 1].grantName
  /\ hist[Len(hist)].dbName = hist[Len(hist) - 1].dbName
  /\ hist[Len(hist)].username = hist[Len(hist) - 1].username
  /\ hist[Len(hist)].ret = Nil

\* C28: with one caller, a call of Grant, Revoke, GrantAll or RevokeAll that
\* returns nil right after the same call, whether that one failed at some
\* step or returned nil too, leaves the privileges as one call going through
\* leaves them from the state before the first of the two.
C28_IdempotentByRetry ==
  Repeated
  => acl = ApplyAll(hist[Len(hist) - 1].pre, CallStatements(hist[Len(hist)]))

\* GrantAll failed at its third statement, with two already executed, and
\* its repeat returned nil.
C28_Witness ==
  /\ Repeated
  /\ hist[Len(hist)].op = "GrantAll"
  /\ hist[Len(hist) - 1].ret = Wrap("grant TABLES failed", ServerErr)
  /\ pre # acl
  /\ pre # hist[Len(hist) - 1].pre

\* ------------------------------------------------------------- constructor

\* The names that the constructor calls that have returned passed in
\* WithBadUsernames.
NamesPassed == UNION {Range(hist[i].names) : i \in 1..Len(hist)}

\* C29: after NewPostgresController is called with WithBadUsernames(S),
\* every name of S is rejected by validateUsername in every controller,
\* "postgres" is always rejected, and no step takes a name off the list.
C29_ReservedOnceCalled ==
  /\ [](/\ \A n \in NamesPassed : validateUsername(n) # Nil
        /\ validateUsername("postgres") # Nil)
  /\ [][Range(baseUsers) \subseteq Range(baseUsers')]_vars

====
